---------------------------- MODULE Spec2Model ----------------------------
(***************************************************************************)
(* TAU Commander software installation manager.                            *)
(*                                                                         *)
(* State machine of tau/cf/software/installation.py: Installation objects  *)
(* with their dependency trees, the install-prefix directories they verify *)
(* and build into, the source archive caches of the storage levels, the    *)
(* lock file kept inside the install-prefix, and the processes (one per    *)
(* command line invocation) that run install() inside or outside the       *)
(* with-scope of an installation.                                          *)
(***************************************************************************)
EXTENDS Integers, Sequences, FiniteSets, TLC

(***************************************************************************)
(* Bounds of the model.                                                    *)
(***************************************************************************)
NObjs == 4        \* Installation objects of the dependency tree
NCmds == 1        \* distinct command names a package may require
NLibs == 2        \* distinct library names a package may require
NHdrs == 1        \* distinct header names a package may require
NLevels == 2      \* storage levels (lowest precedence first)
MaxCalls == 2     \* top-level install() calls one process makes in a row
MaxScopeCalls == 1  \* install() calls one process makes inside one with-scope
NFlags == 1       \* distinct non-empty flag lists a caller may pass to a build step
MaxConfigCalls == 1  \* compiletime_config/runtime_config calls one process makes
NEnvs == 1        \* distinct non-empty environment mappings a caller may pass

Objs == 1 .. NObjs
Cmds == 1 .. NCmds
Libs == 1 .. NLibs
Hdrs == 1 .. NHdrs
Levels == 1 .. NLevels
Procs == {1, 2}
Prefixes == Objs

None == 0
Shm == NLevels + 1            \* the temporary build directory under /dev/shm
Dirs == 1 .. (NLevels + 1)    \* <level>/src for every level, and the shm directory

VARIABLES
    \* Installation attributes (software/installation.py:108-149)
    sources,            \* [Objs -> specifier]   sources[name], as given to the constructor
    target,             \* <<target_arch, target_os>> the installations are made for
    dependencies,       \* [Objs -> Seq(Objs)]   self.dependencies, in iteration order
    src,                \* [Objs -> BOOLEAN]     self.src is not None
    install_prefix,     \* [Objs -> Prefixes]    self.install_prefix
    verify_commands,    \* [Objs -> SUBSET Cmds]
    verify_libraries,   \* [Objs -> SUBSET Libs]
    verify_headers,     \* [Objs -> SUBSET Hdrs]
    is_installed,       \* [Objs -> BOOLEAN]
    src_prefix,         \* [Objs -> Dirs \cup {None}]  directory holding the staged tree
    \* The file system
    fs,                 \* [Prefixes -> prefix directory]
    archive_file,       \* [Objs -> [Dirs -> {"absent", "corrupt", "good"}]]
    src_tree,           \* [Objs -> SUBSET Dirs]  dirs holding a staged source tree
    writable,           \* SUBSET Levels
    shm_available,      \* BOOLEAN  a directory can be made under /dev/shm
    \* The processes
    ppc,                \* [Procs -> position of the caller]
    root,               \* [Procs -> Objs]  the installation the process works on
    stack,              \* [Procs -> Seq(frame)]  active install() calls, innermost last;
                        \* a frame records the steps its call has taken so far
    outcome,            \* [Procs -> result of the last finished top-level call]
    calls,              \* [Procs -> Nat]  top-level install() calls made so far
    inscope,            \* [Procs -> BOOLEAN]  the process is inside the with-scope
    released,           \* [Procs -> what release() did in __exit__]
    \* The project database the commands work on
    selected,           \* BOOLEAN  a project is selected
    targets,            \* Seq(name)  the target records of the selected project
    \* What the checks look at
    trace,              \* [Procs -> Seq(event)]  steps of the call that ended last
    failed,             \* [Procs -> Objs \cup {None}]  whose install() raised last
    history             \* [Procs -> Seq([force, result, built])]  finished top-level calls

config == <<selected, targets, sources, target, dependencies, src, install_prefix, verify_commands, verify_libraries,
            verify_headers, writable, shm_available, root>>
vars == <<selected, targets, sources, target, dependencies, src, install_prefix, verify_commands, verify_libraries,
          verify_headers, is_installed, src_prefix, fs, archive_file, src_tree,
          writable, shm_available, ppc, root, stack, outcome, calls, inscope,
          released, trace, failed, history>>

(***************************************************************************)
(* The install-prefix directory.  bin[c] is the state of <prefix>/bin/c;   *)
(* lib, lib64 and inc are the accessible files of <prefix>/lib (when it is *)
(* a real directory), <prefix>/lib64 and <prefix>/include; libdir tells    *)
(* whether <prefix>/lib is absent, a directory, or a symbolic link to      *)
(* lib64.  lock is the process whose unique file is hard-linked as         *)
(* <prefix>/.tau_lock.lock (None: no such file), uniq the processes whose  *)
(* unique lock file exists in the directory.                               *)
(***************************************************************************)
AbsentFS ==
    [exists |-> FALSE, bin |-> [c \in Cmds |-> "missing"], libdir |-> "absent",
     lib |-> {}, lib64dir |-> FALSE, lib64 |-> {}, inc |-> {},
     lock |-> None, uniq |-> {}]

EmptyFS == [AbsentFS EXCEPT !.exists = TRUE]

ValidFS ==
    [EmptyFS EXCEPT !.bin = [c \in Cmds |-> "ok"], !.libdir = "dir",
                    !.lib = Libs, !.inc = Hdrs]

Valid64FS ==
    [EmptyFS EXCEPT !.bin = [c \in Cmds |-> "ok"], !.lib64dir = TRUE,
                    !.lib64 = Libs, !.inc = Hdrs]

NoExecFS == [ValidFS EXCEPT !.bin = [c \in Cmds |-> "noexec"]]

NoHeaderFS == [ValidFS EXCEPT !.inc = {}]

\* util.file_accessible(<prefix>/lib/l), following the lib -> lib64 link
LibAccessible(d, l) ==
    \/ d.libdir = "dir" /\ l \in d.lib
    \/ d.libdir = "link" /\ d.lib64dir /\ l \in d.lib64

\* util.file_accessible(<prefix>/lib64/l)
Lib64Accessible(d, l) == d.lib64dir /\ l \in d.lib64

\* util.file_accessible(<prefix>/include/h)
HeaderAccessible(d, h) == h \in d.inc

(***************************************************************************)
(* Installation.verify: the checks on the package's own prefix.  The       *)
(* result is "ok" or the reason of the SoftwarePackageError.               *)
(***************************************************************************)
NoLib64LibraryCheck(o, d) ==
    \A l \in verify_libraries[o] : LibAccessible(d, l)

LibraryCheck(o, d) ==
    \A l \in verify_libraries[o] : LibAccessible(d, l) \/ Lib64Accessible(d, l)

NoPrefixCheckVerifyOwn(o, d) ==
    IF \E c \in verify_commands[o] : d.bin[c] = "missing" THEN "missing"
    ELSE IF \E c \in verify_commands[o] : d.bin[c] = "noexec" THEN "noexec"
    ELSE IF ~LibraryCheck(o, d) THEN "lib"
    ELSE IF \E h \in verify_headers[o] : ~HeaderAccessible(d, h) THEN "hdr"
    ELSE "ok"

VerifyOwn(o, d) ==
    IF ~d.exists THEN "noprefix"
    ELSE IF \E c \in verify_commands[o] : d.bin[c] # "ok" THEN
        (IF \E c \in verify_commands[o] : d.bin[c] = "missing" THEN "missing"
         ELSE "noexec")
    ELSE IF ~LibraryCheck(o, d) THEN "lib"
    ELSE IF \E h \in verify_headers[o] : ~HeaderAccessible(d, h) THEN "hdr"
    ELSE "ok"

RECURSIVE verify(_, _)
\* verify() of o on file system f: "ok", or the reason of the first error raised
\* (the dependencies are verified first, in iteration order)
verify(o, f) ==
    LET ds == dependencies[o]
        bad == {i \in 1 .. Len(ds) : verify(ds[i], f) # "ok"}
    IN  IF bad # {}
        THEN verify(ds[CHOOSE i \in bad : \A j \in bad : i <= j], f)
        ELSE VerifyOwn(o, f[install_prefix[o]])

RECURSIVE VerifyMarks(_, _)
\* the objects whose is_installed flag a verify() of o sets
VerifyMarks(o, f) ==
    LET ds == dependencies[o]
        bad == {i \in 1 .. Len(ds) : verify(ds[i], f) # "ok"}
        upto == IF bad = {} THEN Len(ds) ELSE CHOOSE i \in bad : \A j \in bad : i <= j
    IN  UNION {VerifyMarks(ds[i], f) : i \in 1 .. upto}
            \cup (IF verify(o, f) = "ok" THEN {o} ELSE {})

(***************************************************************************)
(* Bookkeeping shared by the steps of install().                           *)
(***************************************************************************)
Frame(o, force) ==
    [obj |-> o, force |-> force, pc |-> "deps", i |-> 1,
     build_prefix |-> None, reuse |-> TRUE, archive |-> None, entered |-> 0,
     trace |-> <<>>]

Top(p) == stack[p][Len(stack[p])]

At(p, pc) == ppc[p] = "running" /\ stack[p] # <<>> /\ Top(p).pc = pc

SetTop(p, fr) == [stack EXCEPT ![p] = [@ EXCEPT ![Len(@)] = fr]]

Ev(name, o) == [op |-> name, obj |-> o]

\* is_installed after a verify() of o on file system f
Marked(o, f) == [x \in Objs |-> is_installed[x] \/ x \in VerifyMarks(o, f)]

VerifyEvent(o, f) == Ev(IF verify(o, f) = "ok" THEN "verify_ok" ELSE "verify_fail", o)

\* the call whose steps are tr ran `make install` to its end
Built(tr) == \E j \in 1 .. Len(tr) : tr[j].op = "make_install_ok"

\* the call goes on in frame fr, having taken the steps evs
Continue(p, fr, evs) ==
    /\ stack' = SetTop(p, [fr EXCEPT !.trace = @ \o evs])
    /\ UNCHANGED <<outcome, ppc, trace, failed, history>>

Goto(p, pc, evs) == Continue(p, [Top(p) EXCEPT !.pc = pc], evs)

\* install() of the innermost call returns normally
Return(p, evs) ==
    IF Len(stack[p]) = 1
    THEN /\ stack' = [stack EXCEPT ![p] = <<>>]
         /\ outcome' = [outcome EXCEPT ![p] = "ok"]
         /\ ppc' = [ppc EXCEPT ![p] = "ready"]
         /\ trace' = [trace EXCEPT ![p] = Top(p).trace \o evs]
         /\ history' = [history EXCEPT ![p] =
                          Append(@, [force |-> Top(p).force, result |-> "ok",
                                     built |-> Built(Top(p).trace \o evs)])]
         /\ failed' = failed
    ELSE /\ stack' = [stack EXCEPT ![p] =
                [k \in 1 .. Len(@) - 1 |->
                    IF k = Len(@) - 1
                    THEN [@[k] EXCEPT !.trace = Append(@, Ev("return", Top(p).obj))]
                    ELSE @[k]]]
         /\ UNCHANGED <<outcome, ppc, trace, failed, history>>

\* an exception of a dependency's install() that its caller would catch and ignore
DependencyFailureIgnored(p, exc, evs) ==
    IF Len(stack[p]) > 1 THEN Return(p, evs)
    ELSE /\ stack' = [stack EXCEPT ![p] = <<>>]
         /\ outcome' = [outcome EXCEPT ![p] = exc]
         /\ ppc' = [ppc EXCEPT ![p] = IF inscope[p] THEN "unwinding" ELSE "done"]
         /\ trace' = [trace EXCEPT ![p] = Top(p).trace \o evs]
         /\ failed' = [failed EXCEPT ![p] = Top(p).obj]
         /\ history' = [history EXCEPT ![p] =
                          Append(@, [force |-> stack[p][1].force, result |-> exc,
                                     built |-> Built(stack[p][1].trace \o evs)])]

\* An exception leaves install(): no frame of install() catches it (the handler at
\* lines 495-497 logs and re-raises), so every active call is left at once.
Raise(p, exc, evs) ==
    /\ stack' = [stack EXCEPT ![p] = <<>>]
    /\ outcome' = [outcome EXCEPT ![p] = exc]
    /\ ppc' = [ppc EXCEPT ![p] = IF inscope[p] THEN "unwinding" ELSE "done"]
    /\ trace' = [trace EXCEPT ![p] = Top(p).trace \o evs]
    /\ failed' = [failed EXCEPT ![p] = Top(p).obj]
    /\ history' = [history EXCEPT ![p] =
                     Append(@, [force |-> stack[p][1].force, result |-> exc,
                                built |-> Built(stack[p][1].trace \o evs)])]

(***************************************************************************)
(* AutotoolsInstallation.install (software/installation.py:448-506).       *)
(***************************************************************************)
FirstDependencyInstalled(fr) == fr.i > 1 \/ dependencies[fr.obj] = <<>>

\* lines 459-460: the loop over the dependencies has ended
DependenciesInstalled(fr) == fr.i > Len(dependencies[fr.obj])

\* lines 459-460: install the next dependency, with the same force_reinstall
InstallDependency(p) ==
    /\ At(p, "deps")
    /\ Top(p).i <= Len(dependencies[Top(p).obj])
    /\ LET dep == dependencies[Top(p).obj][Top(p).i] IN
         stack' = [stack EXCEPT ![p] =
            Append([@ EXCEPT ![Len(@)] =
                      [Top(p) EXCEPT !.i = @ + 1, !.trace = Append(@, Ev("call", dep))]],
                   Frame(dep, Top(p).force))]
    /\ UNCHANGED <<config, is_installed, src_prefix, fs, archive_file, src_tree,
                   ppc, outcome, calls, inscope, released, trace, failed, history>>

\* lines 462-468: a package without source is verified; the branch has no `return`
\* (the legacy driver returned here, cf/installation.py:432), so a package that
\* passes verification goes on to line 475
NullSourceBranch(p, o) ==
    /\ is_installed' = Marked(o, fs)
    /\ IF verify(o, fs) = "ok"
       THEN Goto(p, "clean", <<VerifyEvent(o, fs)>>)
       ELSE Raise(p, "SoftwarePackageError", <<VerifyEvent(o, fs)>>)

NoShortCircuitBranch(p, o) ==
    /\ is_installed' = Marked(o, fs)
    /\ Goto(p, "clean", <<VerifyEvent(o, fs)>>)

\* lines 469-473
ShortCircuitBranch(p, o) ==
    /\ is_installed' = Marked(o, fs)
    /\ IF verify(o, fs) = "ok"
       THEN Return(p, <<VerifyEvent(o, fs)>>)
       ELSE Goto(p, "clean", <<VerifyEvent(o, fs)>>)

InstallCheck(p) ==
    /\ At(p, "deps")
    /\ DependenciesInstalled(Top(p))
    /\ LET o == Top(p).obj IN
         IF ~src[o] THEN NullSourceBranch(p, o)
         ELSE IF ~Top(p).force THEN ShortCircuitBranch(p, o)
         ELSE Goto(p, "clean", <<>>) /\ UNCHANGED is_installed
    /\ UNCHANGED <<config, src_prefix, fs, archive_file, src_tree, calls, inscope,
                   released>>

\* lines 475-478: clean the install-prefix, lock files included
InstallClean(p) ==
    /\ At(p, "clean")
    /\ LET o == Top(p).obj
           d == install_prefix[o]
       IN  IF fs[d].exists
           THEN /\ fs' = [fs EXCEPT ![d] = AbsentFS]
                /\ Goto(p, "mkdtemp", <<Ev("rmtree_prefix", o)>>)
           ELSE /\ fs' = fs
                /\ Goto(p, "mkdtemp", <<>>)
    /\ UNCHANGED <<config, is_installed, src_prefix, archive_file, src_tree,
                   calls, inscope, released>>

\* lines 480-486: a fresh build directory in shared memory, or none, and the call
\* of _prepare_src(build_prefix, reuse=True)
InstallMkdtemp(p) ==
    /\ At(p, "mkdtemp")
    /\ LET o == Top(p).obj IN
         IF shm_available
         THEN /\ archive_file' = [archive_file EXCEPT ![o][Shm] = "absent"]
              /\ src_tree' = [src_tree EXCEPT ![o] = @ \ {Shm}]
              /\ Continue(p, [Top(p) EXCEPT !.pc = "prepare", !.build_prefix = Shm,
                                            !.reuse = TRUE], <<Ev("mkdtemp", o)>>)
         ELSE /\ UNCHANGED <<archive_file, src_tree>>
              /\ Continue(p, [Top(p) EXCEPT !.pc = "prepare", !.build_prefix = None,
                                            !.reuse = TRUE], <<>>)
    /\ UNCHANGED <<config, is_installed, src_prefix, fs, calls, inscope, released>>

(***************************************************************************)
(* Installation._prepare_src (software/installation.py:177-242).  The      *)
(* frame holds its arguments and locals: build_prefix, reuse, archive (the *)
(* directory of the archive file it goes on with) and the number of times  *)
(* it was entered in this install().                                       *)
(***************************************************************************)
\* a file can be created in directory d
CanWrite(d) == d = Shm \/ d \in writable

Max(S) == CHOOSE x \in S : \A y \in S : y <= x

Min(S) == CHOOSE x \in S : \A y \in S : x <= y

\* tau.cf.storage.levels.highest_writable_storage
highest_writable_storage == Max(writable)

LowestCacheHit(found) == Min(found)

\* lines 196-207: reversed(ORDERED_LEVELS) is scanned and left at the first cache
\* directory that holds the archive file
CacheHit(found) == Max(found)

\* lines 195-207: search the archive caches, highest precedence first
SearchCaches(p, o, fr) ==
    LET bp == IF fr.build_prefix = None THEN NLevels ELSE fr.build_prefix
        found == {k \in Levels : archive_file[o][k] # "absent"}
        k == CacheHit(found)
        nfr == [fr EXCEPT !.entered = @ + 1, !.build_prefix = bp, !.pc = "toplevel",
                          !.archive = IF found = {} THEN 1 ELSE k]
    IN  IF found # {} /\ bp # k
        THEN IF CanWrite(bp)
             THEN /\ archive_file' = [archive_file EXCEPT ![o][bp] = archive_file[o][k]]
                  /\ Continue(p, nfr, <<Ev("search", o), Ev("copy", o)>>)
             ELSE /\ archive_file' = archive_file
                  /\ Raise(p, "IOError", <<Ev("search", o)>>)
        ELSE /\ archive_file' = archive_file
             /\ Continue(p, nfr, <<Ev("search", o)>>)

\* lines 209-222: acquire a new copy of the archive and mirror it to the cache
Download(p, o, fr) ==
    IF writable = {}
    THEN /\ archive_file' = archive_file
         /\ Raise(p, "ConfigurationError", <<>>)
    ELSE
      LET hw == highest_writable_storage
          bp == IF fr.build_prefix = None THEN hw ELSE fr.build_prefix
          nfr == [fr EXCEPT !.entered = @ + 1, !.build_prefix = bp, !.pc = "toplevel",
                            !.archive = bp]
      IN  \/ /\ archive_file' = archive_file
             /\ Raise(p, "ConfigurationError", <<Ev("download_fail", o)>>)
          \/ /\ CanWrite(bp)
             /\ \E st \in {"good", "corrupt"} :
                  archive_file' = [archive_file EXCEPT ![o][bp] = st, ![o][hw] = st]
             /\ Continue(p, nfr, <<Ev("download", o)>>)

PrepareSrcAcquire(p) ==
    /\ At(p, "prepare")
    /\ LET o == Top(p).obj
           fr == Top(p)
       IN  IF ~src[o]
           THEN /\ archive_file' = archive_file
                /\ Raise(p, "ConfigurationError", <<>>)
           ELSE IF fr.reuse THEN SearchCaches(p, o, fr)
           ELSE Download(p, o, fr)
    /\ UNCHANGED <<config, is_installed, src_prefix, fs, src_tree, calls, inscope,
                   released>>

RetryReusing(fr) == [fr EXCEPT !.pc = "prepare"]

\* line 229: the retry, `return self._prepare_src(build_prefix, reuse=False)`
RetryFresh(fr) == [fr EXCEPT !.pc = "prepare", !.reuse = FALSE]

\* lines 223-231: read the archive's top-level directory
PrepareSrcToplevel(p) ==
    /\ At(p, "toplevel")
    /\ LET o == Top(p).obj
           fr == Top(p)
       IN  IF archive_file[o][fr.archive] = "good"
           THEN Goto(p, "extract", <<>>)
           ELSE IF fr.reuse
           THEN Continue(p, RetryFresh(fr), <<Ev("retry", o)>>)
           ELSE Raise(p, "ConfigurationError", <<Ev("unreadable", o)>>)
    /\ UNCHANGED <<config, is_installed, src_prefix, fs, archive_file, src_tree,
                   calls, inscope, released>>

ReuseTreeAfterRetry(fr, o) == fr.build_prefix \in src_tree[o]

\* line 233: `if reuse and os.path.isdir(src_prefix)`
ReuseTree(fr, o) == fr.reuse /\ fr.build_prefix \in src_tree[o]

\* lines 232-242: reuse the staged tree or extract the archive
PrepareSrcExtract(p) ==
    /\ At(p, "extract")
    /\ LET o == Top(p).obj
           fr == Top(p)
           bp == fr.build_prefix
       IN  IF ReuseTree(fr, o)
           THEN /\ src_prefix' = [src_prefix EXCEPT ![o] = bp]
                /\ src_tree' = src_tree
                /\ Goto(p, "configure", <<Ev("reuse_tree", o)>>)
           ELSE \/ /\ CanWrite(bp)
                   /\ src_tree' = [src_tree EXCEPT ![o] = @ \cup {bp}]
                   /\ src_prefix' = [src_prefix EXCEPT ![o] = bp]
                   /\ Goto(p, "configure", <<Ev("extract", o)>>)
                \/ /\ src_tree' = [src_tree EXCEPT ![o] =
                                     IF CanWrite(bp) THEN @ \ {bp} ELSE @]
                   /\ src_prefix' = src_prefix
                   /\ Raise(p, "ConfigurationError", <<Ev("extract_fail", o)>>)
    /\ UNCHANGED <<config, is_installed, fs, archive_file, calls, inscope, released>>

(***************************************************************************)
(* The build driver (software/installation.py:372-446) as install() runs   *)
(* it at lines 488-502.  The exit status of every subprocess and the files *)
(* `make install` leaves in the prefix are the environment's choice.       *)
(***************************************************************************)
\* The flag lists and environments a caller may pass; 0 is the empty one, which
\* install() passes at lines 490-494.
FlagLists == 0 .. NFlags
Envs == 0 .. NEnvs

\* exit statuses of the subprocesses a step creates, in the order of creation
Statuses == [1 .. 2 -> {0, 1}]

\* util.create_subprocess(cmd, cwd=self.src_prefix, env=env): cmd is the program,
\* the parallelism flags when par, --prefix=<install_prefix> when pfx, and flags
Command(prog, par, pfx, flags, env) ==
    [prog |-> prog, par |-> par, pfx |-> pfx, flags |-> flags, env |-> env]

\* lines 372-393: the commands configure() runs and whether it raises
configure(flags, env, st) ==
    [cmds |-> <<Command("configure", FALSE, TRUE, flags, env)>>, raised |-> st[1] # 0]

\* make() that raises as soon as its first command fails
make_without_retry(flags, env, parallel, st) ==
    [cmds |-> <<Command("make", parallel, FALSE, flags, env)>>, raised |-> st[1] # 0]

\* lines 395-418: the commands make() runs and whether it raises
make(flags, env, parallel, st) ==
    IF st[1] = 0
    THEN [cmds |-> <<Command("make", parallel, FALSE, flags, env)>>, raised |-> FALSE]
    ELSE [cmds |-> <<Command("make", parallel, FALSE, flags, env),
                     Command("make", FALSE, FALSE, flags, env)>>,
          raised |-> st[2] # 0]

\* lines 420-443: the commands make_install() runs and whether it raises
make_install(flags, env, parallel, st) ==
    [cmds |-> <<Command("make install", parallel, FALSE, flags, env)>>,
     raised |-> st[1] # 0]

\* the name of the step that ran command c with exit status x
StepName(c, x) ==
    IF c.prog = "configure" THEN (IF x = 0 THEN "configure_ok" ELSE "configure_fail")
    ELSE IF c.prog = "make install"
    THEN (IF x = 0 THEN "make_install_ok" ELSE "make_install_fail")
    ELSE IF c.par THEN (IF x = 0 THEN "make_parallel_ok" ELSE "make_parallel_fail")
    ELSE (IF x = 0 THEN "make_serial_ok" ELSE "make_serial_fail")

\* the steps of a run r of a build step of o under the exit statuses st
Steps(r, st, o) == [k \in 1 .. Len(r.cmds) |-> Ev(StepName(r.cmds[k], st[k]), o)]

BuildFailureSwallowed(p, evs) == Goto(p, "final", evs)

\* lines 495-497: the exception of a build step is logged and raised again
BuildFailed(p, evs) == Raise(p, "SoftwarePackageError", evs)

\* a build step of install() that ran r: the next step, or the exception
BuildStep(p, r, st, next) ==
    IF r.raised THEN BuildFailed(p, Steps(r, st, Top(p).obj))
    ELSE Goto(p, next, Steps(r, st, Top(p).obj))

\* line 492: self.configure([], env)
Configure(p) ==
    /\ At(p, "configure")
    /\ \E st \in Statuses : BuildStep(p, configure(0, 0, st), st, "make")
    /\ UNCHANGED <<config, is_installed, src_prefix, fs, archive_file, src_tree,
                   calls, inscope, released>>

\* line 493: self.make([], env), in parallel first and then once more without the
\* -j flags
Make(p) ==
    /\ At(p, "make")
    /\ \E st \in Statuses : BuildStep(p, make(0, 0, TRUE, st), st, "make_install")
    /\ UNCHANGED <<config, is_installed, src_prefix, fs, archive_file, src_tree,
                   calls, inscope, released>>

\* what `make install` may leave in the prefix
BuildOutputs == {ValidFS, Valid64FS, NoHeaderFS}

\* the files of out written into directory d, whose lock files stay
Installed(d, out) == [out EXCEPT !.lock = d.lock, !.uniq = d.uniq]

\* lines 444-446: lib becomes a link to lib64 when only lib64 exists
Lib64Alias(d) ==
    IF d.lib64dir /\ d.libdir = "absent" THEN [d EXCEPT !.libdir = "link"] ELSE d

\* what a `make install` that exits non-zero may leave in directory d
FailedOutputs(d) == {EmptyFS, Valid64FS, d}

AliasedAfterFailure(d, out) == Lib64Alias(Installed(d, out))

\* lines 442-443: the exception leaves make_install() before the alias is made
AfterFailure(d, out) == Installed(d, out)

\* lines 442-446: the prefix after `make install` left out in directory d
AfterMakeInstall(r, d, out) ==
    IF r.raised THEN AfterFailure(d, out) ELSE Lib64Alias(Installed(d, out))

\* line 494: self.make_install([], env)
MakeInstall(p) ==
    /\ At(p, "make_install")
    /\ LET d == install_prefix[Top(p).obj] IN
         \E st \in Statuses :
           LET r == make_install(0, 0, FALSE, st) IN
             /\ \E out \in (IF r.raised THEN FailedOutputs(fs[d]) ELSE BuildOutputs) :
                  fs' = [fs EXCEPT ![d] = AfterMakeInstall(r, fs[d], out)]
             /\ BuildStep(p, r, st, "rmsrc")
    /\ UNCHANGED <<config, is_installed, src_prefix, archive_file, src_tree,
                   calls, inscope, released>>

InstallKeepSrc(p) ==
    /\ At(p, "rmsrc")
    /\ Goto(p, "final", <<>>)
    /\ UNCHANGED <<config, is_installed, src_prefix, fs, archive_file, src_tree, calls,
                   inscope, released>>

\* lines 498-502: delete the staged source tree
InstallRmSrc(p) ==
    /\ At(p, "rmsrc")
    /\ LET o == Top(p).obj IN
         /\ src_tree' = [src_tree EXCEPT ![o] = @ \ {src_prefix[o]}]
         /\ Goto(p, "final", <<Ev("rmtree_src", o)>>)
    /\ UNCHANGED <<config, is_installed, src_prefix, fs, archive_file, calls, inscope,
                   released>>

SkippedFinalVerify(p, o) == Return(p, <<>>) /\ UNCHANGED is_installed

\* lines 504-506
FinalVerify(p, o) ==
    /\ is_installed' = Marked(o, fs)
    /\ IF verify(o, fs) = "ok"
       THEN Return(p, <<VerifyEvent(o, fs)>>)
       ELSE Raise(p, "SoftwarePackageError", <<VerifyEvent(o, fs)>>)

InstallVerify(p) ==
    /\ At(p, "final")
    /\ FinalVerify(p, Top(p).obj)
    /\ UNCHANGED <<config, src_prefix, fs, archive_file, src_tree, calls, inscope,
                   released>>

(***************************************************************************)
(* The lock of the with-scope (software/installation.py:149, 162-175).     *)
(* LockFile is lockfile's LinkLockFile: acquire() creates the process's    *)
(* unique file beside the lock file and hard-links it as the lock file,    *)
(* waiting while the link cannot be made; release() raises NotLocked when  *)
(* no lock file exists, NotMyLock when the process's unique file is gone,  *)
(* and unlinks both files otherwise.                                       *)
(***************************************************************************)
\* lines 162-167, up to the creation of the unique file
Enter(p) ==
    /\ ppc[p] = "start"
    /\ LET o == root[p]
           d == install_prefix[o]
       IN  IF src[o]
           THEN /\ fs' = [fs EXCEPT ![d] =
                            [(IF @.exists THEN @ ELSE EmptyFS) EXCEPT !.uniq = @ \cup {p}]]
                /\ ppc' = [ppc EXCEPT ![p] = "acquiring"]
                /\ inscope' = inscope
           ELSE /\ fs' = fs
                /\ ppc' = [ppc EXCEPT ![p] = "ready"]
                /\ inscope' = [inscope EXCEPT ![p] = TRUE]
    /\ UNCHANGED <<config, is_installed, src_prefix, archive_file, src_tree,
                   stack, outcome, calls, released, trace, failed, history>>

\* line 166: the link is made, or cannot even be tried because the unique file is gone
Acquire(p) ==
    /\ ppc[p] = "acquiring"
    /\ LET d == install_prefix[root[p]] IN
         IF p \notin fs[d].uniq
         THEN /\ fs' = fs
              /\ ppc' = [ppc EXCEPT ![p] = "done"]
              /\ outcome' = [outcome EXCEPT ![p] = "OSError"]
              /\ inscope' = inscope
         ELSE /\ fs[d].lock = None
              /\ fs' = [fs EXCEPT ![d].lock = p]
              /\ ppc' = [ppc EXCEPT ![p] = "ready"]
              /\ outcome' = outcome
              /\ inscope' = [inscope EXCEPT ![p] = TRUE]
    /\ UNCHANGED <<config, is_installed, src_prefix, archive_file, src_tree,
                   stack, calls, released, trace, failed, history>>

\* line 172, and lines 173-174 for NotLocked
Release(p, d) ==
    IF fs[d].lock = None
    THEN /\ fs' = fs
         /\ outcome' = outcome
         /\ released' = [released EXCEPT ![p] = "NotLocked"]
    ELSE IF p \notin fs[d].uniq
    THEN /\ fs' = fs
         /\ outcome' = [outcome EXCEPT ![p] = "NotMyLock"]
         /\ released' = [released EXCEPT ![p] = "NotMyLock"]
    ELSE /\ fs' = [fs EXCEPT ![d].lock = None, ![d].uniq = @ \ {p}]
         /\ outcome' = outcome
         /\ released' = [released EXCEPT ![p] = "released"]

\* lines 169-175: the scope is left, normally or by an exception in flight
Exit(p) ==
    /\ ppc[p] \in {"ready", "unwinding"}
    /\ inscope[p]
    /\ Release(p, install_prefix[root[p]])
    /\ ppc' = [ppc EXCEPT ![p] = "done"]
    /\ inscope' = [inscope EXCEPT ![p] = FALSE]
    /\ UNCHANGED <<config, is_installed, src_prefix, archive_file, src_tree,
                   stack, calls, trace, failed, history>>

(***************************************************************************)
(* The caller: install(force_reinstall) on the process's installation,     *)
(* without the with-scope up to MaxCalls times in a row, inside it up to   *)
(* MaxScopeCalls times.                                                     *)
(***************************************************************************)
CallInstall(p, force) ==
    /\ ppc[p] \in {"start", "ready"}
    /\ calls[p] < (IF inscope[p] THEN MaxScopeCalls ELSE MaxCalls)
    /\ calls' = [calls EXCEPT ![p] = @ + 1]
    /\ stack' = [stack EXCEPT ![p] = <<Frame(root[p], force)>>]
    /\ ppc' = [ppc EXCEPT ![p] = "running"]
    /\ outcome' = [outcome EXCEPT ![p] = "none"]
    /\ trace' = [trace EXCEPT ![p] = <<>>]
    /\ failed' = [failed EXCEPT ![p] = None]
    /\ UNCHANGED <<config, is_installed, src_prefix, fs, archive_file, src_tree,
                   inscope, released, history>>

Step(p) ==
    \/ Enter(p)
    \/ Acquire(p)
    \/ Exit(p)
    \/ \E force \in BOOLEAN : CallInstall(p, force)
    \/ InstallDependency(p)
    \/ InstallCheck(p)
    \/ InstallClean(p)
    \/ InstallMkdtemp(p)
    \/ PrepareSrcAcquire(p)
    \/ PrepareSrcToplevel(p)
    \/ PrepareSrcExtract(p)
    \/ Configure(p)
    \/ Make(p)
    \/ MakeInstall(p)
    \/ InstallRmSrc(p)
    \/ InstallVerify(p)

Next == \E p \in Procs : Step(p)

(***************************************************************************)
(* Initial states: the installations as their constructors leave them      *)
(* (software/installation.py:108-142).  An installation without source was *)
(* given an existing directory as its prefix; is_installed tells whether   *)
(* the constructor's verify() succeeded (it runs before any dependency is  *)
(* added, so it checks the package's own prefix only).                     *)
(***************************************************************************)
\* a dependency tree: the dependencies of o are 2o and 2o+1
TreeDependencies == [o \in Objs |-> SelectSeq(<<2 * o, 2 * o + 1>>, LAMBDA x : x \in Objs)]

NoArchive == [d \in Dirs |-> "absent"]

Constructed ==
    /\ sources = [o \in Objs |-> IF src[o] THEN "download" ELSE "directory"]
    /\ target = <<"x86_64", "Linux">>
    /\ is_installed = [o \in Objs |-> VerifyOwn(o, fs[install_prefix[o]]) = "ok"]
    /\ src_prefix = [o \in Objs |-> None]
    /\ \A o \in Objs : ~src[o] => fs[install_prefix[o]].exists

\* no command has run
IdleProcesses ==
    /\ stack = [p \in Procs |-> <<>>]
    /\ outcome = [p \in Procs |-> "none"]
    /\ calls = [p \in Procs |-> 0]
    /\ inscope = [p \in Procs |-> FALSE]
    /\ released = [p \in Procs |-> "none"]
    /\ trace = [p \in Procs |-> <<>>]
    /\ failed = [p \in Procs |-> None]
    /\ history = [p \in Procs |-> <<>>]

Idle ==
    /\ IdleProcesses
    /\ selected = FALSE
    /\ targets = <<>>

\* one process installs the root of a dependency tree
InitInstall ==
    /\ dependencies = TreeDependencies
    /\ install_prefix = [o \in Objs |-> o]
    /\ \E n \in Objs \cup {None} : src = [o \in Objs |-> o # n]
    /\ \E full \in BOOLEAN :
         /\ verify_commands = [o \in Objs |-> IF full THEN Cmds ELSE {}]
         /\ verify_libraries = [o \in Objs |-> IF full THEN Libs ELSE {}]
         /\ verify_headers = [o \in Objs |-> IF full THEN Hdrs ELSE {}]
         /\ fs \in [Prefixes -> {AbsentFS, ValidFS, Valid64FS, NoExecFS}]
         /\ full => \A d \in Prefixes : d > 1 => fs[d] \in {AbsentFS, ValidFS}
         /\ ~full => \E x \in {AbsentFS, ValidFS} : \A d \in Prefixes : fs[d] = x
    /\ \E st \in {"absent", "corrupt", "good"} :
         archive_file = [o \in Objs |-> [NoArchive EXCEPT ![NLevels] = st]]
    /\ src_tree = [o \in Objs |-> {}]
    /\ writable = {NLevels}
    /\ shm_available \in BOOLEAN
    /\ root = [p \in Procs |-> 1]
    /\ ppc = [p \in Procs |-> IF p = 1 THEN "start" ELSE "done"]
    /\ Constructed
    /\ Idle

SpecInstall == InitInstall /\ [][Next]_vars

(***************************************************************************)
(* Properties of install().                                                *)
(***************************************************************************)
Frames(p) == {stack[p][k] : k \in 1 .. Len(stack[p])}

StepsOf(tr) == {tr[j].op : j \in 1 .. Len(tr)}

Range(seq) == {seq[j] : j \in 1 .. Len(seq)}

\* the steps that delete the prefix, stage the source or build
BuildSteps ==
    {"rmtree_prefix", "mkdtemp", "search", "copy", "download", "download_fail",
     "retry", "unreadable", "reuse_tree", "extract", "extract_fail",
     "configure_ok", "configure_fail", "make_parallel_ok", "make_parallel_fail",
     "make_serial_ok", "make_serial_fail", "make_install_ok", "make_install_fail",
     "rmtree_src"}

\* the first top-level call of p has ended and no other has begun
FirstCallEnded(p) == calls[p] = 1 /\ stack[p] = <<>> /\ Len(history[p]) = 1

\* C1: install() on an installation without source never deletes the install-prefix
\* and never runs staging, configure, make or make install.
C1_NullSourceNeverBuilt ==
    \A p \in Procs : \A fr \in Frames(p) :
        ~src[fr.obj] => StepsOf(fr.trace) \cap BuildSteps = {}

\* C2: install() on an installation without source whose prefix passes verify()
\* returns normally and leaves a prefix that still passes verify(); when verify()
\* fails it raises SoftwarePackageError and has changed nothing on disk.
C2_NullSourceOnlyVerified ==
    \A p \in Procs :
        (FirstCallEnded(p) /\ ~src[root[p]] /\ failed[p] \in {None, root[p]}) =>
            IF Ev("verify_ok", root[p]) \in Range(trace[p])
            THEN /\ history[p][1].result = "ok"
                 /\ verify(root[p], fs) = "ok"
            ELSE /\ history[p][1].result = "SoftwarePackageError"
                 /\ StepsOf(trace[p]) \cap BuildSteps = {}

\* the innermost install() of p returns normally in this step
ReturnsNormally(p) ==
    /\ stack[p] # <<>>
    /\ Len(stack'[p]) = Len(stack[p]) - 1
    /\ outcome'[p] \in {"none", "ok"}

\* C3: install() returns normally only from a verify() of its package that succeeded
\* (the returning step is that verify(): it sets is_installed and the prefix it leaves
\* passes verify()), and a verify() that fails after the build is raised.
C3_VerifyIsFinalGate ==
    [][\A p \in Procs :
         /\ ReturnsNormally(p) =>
              /\ verify(Top(p).obj, fs') = "ok"
              /\ fs' = fs
              /\ is_installed' = Marked(Top(p).obj, fs)
              /\ is_installed'[Top(p).obj]
         /\ (At(p, "final") /\ verify(Top(p).obj, fs) # "ok" /\ stack'[p] # stack[p]) =>
              outcome'[p] = "SoftwarePackageError"]_vars

C3_Witness ==
    /\ FirstCallEnded(1)
    /\ history[1][1].result = "ok"
    /\ history[1][1].built
    /\ trace[1][Len(trace[1])] = Ev("verify_ok", root[1])

\* the second top-level call of p follows a first install(force_reinstall=False)
\* that returned normally, and is an install(force_reinstall=False) too
SecondPlainCall(p) ==
    /\ calls[p] = 2
    /\ src[root[p]]
    /\ history[p][1].result = "ok"
    /\ ~history[p][1].force
    /\ IF stack[p] # <<>> THEN ~stack[p][1].force
       ELSE Len(history[p]) = 2 /\ ~history[p][2].force

\* C4: the second of two install(force_reinstall=False) calls, the first of which
\* returned normally, only verifies: no step deletes, stages or builds, in this
\* package or in any dependency, and it returns normally.
C4_SecondInstallOnlyVerifies ==
    \A p \in Procs : SecondPlainCall(p) =>
        /\ \A fr \in Frames(p) : StepsOf(fr.trace) \subseteq {"call", "return", "verify_ok"}
        /\ stack[p] = <<>> =>
              /\ StepsOf(trace[p]) \subseteq {"call", "return", "verify_ok"}
              /\ history[p][2].result = "ok"
              /\ ~history[p][2].built

C4_Witness ==
    /\ Len(history[1]) = 2
    /\ SecondPlainCall(1)
    /\ history[1][1].built
    /\ history[1][2].result = "ok"
    /\ dependencies[root[1]] # <<>>

\* the dependencies a frame has called so far, in the order of the calls
Called(fr) == SelectSeq(fr.trace, LAMBDA e : e.op = "call")

\* C5: every step install() takes on its own package (verifying, cleaning the
\* prefix, staging, building) comes after the install() of every dependency has
\* returned; dependencies are installed in their order, one at a time: a frame
\* that has called a dependency takes no step before that call has returned.
C5_DependenciesFirst ==
    \A p \in Procs : \A k \in 1 .. Len(stack[p]) :
        LET fr == stack[p][k]
            tr == fr.trace
            ds == dependencies[fr.obj]
        IN  /\ \A j \in 1 .. Len(tr) :
                 tr[j].op \notin {"call", "return"} =>
                     \A i \in 1 .. Len(ds) : \E h \in 1 .. (j - 1) : tr[h] = Ev("return", ds[i])
            /\ \A j \in 1 .. Len(tr) :
                 tr[j].op = "call" =>
                     IF j = Len(tr)
                     THEN k < Len(stack[p]) /\ stack[p][k + 1].obj = tr[j].obj
                     ELSE tr[j + 1] = Ev("return", tr[j].obj)
            /\ k < Len(stack[p]) => (tr # <<>> /\ tr[Len(tr)].op = "call")
            /\ \A j \in 1 .. Len(Called(fr)) : Called(fr)[j].obj = ds[j]

C5_Witness ==
    \E fr \in Frames(1) :
        /\ fr.obj = 1
        /\ fr.pc = "make_install"
        /\ Len(dependencies[1]) = 2
        /\ dependencies[2] # <<>>
        /\ \E j \in 1 .. Len(fr.trace) : fr.trace[j].op = "rmtree_prefix"

\* the positions of the retries among the steps tr of one call
Retries(tr) == {j \in 1 .. Len(tr) : tr[j].op = "retry"}

\* C10: within one install() _prepare_src is entered at most twice; the second entry
\* is the one retry after an unreadable archive, made with reuse=False, and it begins
\* with a fresh download; when the fresh archive is unreadable too the call ends with
\* ConfigurationError.
C10_RetryOnceThenFail ==
    \A p \in Procs :
        /\ \A fr \in Frames(p) :
             LET tr == fr.trace IN
               /\ fr.entered <= 2
               /\ Cardinality(Retries(tr)) <= 1
               /\ fr.entered = 2 => Retries(tr) # {}
               /\ Retries(tr) # {} => ~fr.reuse
               /\ \A j \in Retries(tr) :
                    /\ \E h \in 1 .. (j - 1) : tr[h].op = "search"
                    /\ j < Len(tr) => tr[j + 1].op \in {"download", "download_fail"}
        /\ (stack[p] = <<>> /\ trace[p] # <<>> /\ trace[p][Len(trace[p])].op = "unreadable") =>
             /\ history[p][Len(history[p])].result = "ConfigurationError"
             /\ Len(trace[p]) >= 3
             /\ trace[p][Len(trace[p]) - 1].op = "download"
             /\ trace[p][Len(trace[p]) - 2].op = "retry"
             /\ Cardinality(Retries(trace[p])) = 1

\* a corrupt archive found in the cache was copied to the build directory, the one
\* retry downloaded a fresh archive, and that one was unreadable too
C10_Witness ==
    /\ FirstCallEnded(1)
    /\ history[1][1].result = "ConfigurationError"
    /\ \E j \in 1 .. Len(trace[1]) : trace[1][j].op = "copy"
    /\ trace[1][Len(trace[1])].op = "unreadable"
    /\ archive_file[failed[1]][NLevels] = "corrupt"

\* the steps of the build driver
DriverSteps ==
    {"configure_ok", "configure_fail", "make_parallel_ok", "make_parallel_fail",
     "make_serial_ok", "make_serial_fail", "make_install_ok", "make_install_fail"}

\* the steps with which a build step raises
FailedSteps == {"configure_fail", "make_serial_fail", "make_install_fail"}

\* the build steps among the steps tr, in their order
DriverRunOf(tr) ==
    LET b == SelectSeq(tr, LAMBDA e : e.op \in DriverSteps)
    IN  [k \in 1 .. Len(b) |-> b[k].op]

\* configure, then make (once more serially after a parallel failure), then make
\* install, each begun only after the one before succeeded and nothing after a failure
LinearRuns ==
    {<<"configure_fail">>,
     <<"configure_ok", "make_parallel_fail", "make_serial_fail">>,
     <<"configure_ok", "make_parallel_ok", "make_install_fail">>,
     <<"configure_ok", "make_parallel_ok", "make_install_ok">>,
     <<"configure_ok", "make_parallel_fail", "make_serial_ok", "make_install_fail">>,
     <<"configure_ok", "make_parallel_fail", "make_serial_ok", "make_install_ok">>}

IsPrefix(a, b) == Len(a) <= Len(b) /\ \A k \in 1 .. Len(a) : a[k] = b[k]

\* the last top-level install() of p ended with a build step raising
BuildRaised(p) ==
    /\ stack[p] = <<>>
    /\ trace[p] # <<>>
    /\ trace[p][Len(trace[p])].op \in FailedSteps

\* C13: within one install() the build steps run in the order configure, make, make
\* install, each only after the one before succeeded; after a step has failed no
\* build step runs, and the prefix the failure leaves has no lib alias to lib64.
C13_BuildDriverLinear ==
    \A p \in Procs :
        /\ \A fr \in Frames(p) : \E run \in LinearRuns : IsPrefix(DriverRunOf(fr.trace), run)
        /\ \E run \in LinearRuns : IsPrefix(DriverRunOf(trace[p]), run)
        /\ BuildRaised(p) =>
             /\ DriverRunOf(trace[p]) \in LinearRuns
             /\ fs[install_prefix[failed[p]]].libdir # "link"

\* make install failed leaving a lib64 directory and no lib
C13_Witness ==
    /\ BuildRaised(1)
    /\ trace[1][Len(trace[1])].op = "make_install_fail"
    /\ fs[install_prefix[failed[1]]].lib64dir
    /\ fs[install_prefix[failed[1]]].libdir = "absent"

\* C14: when configure, make or make install raises, install() raises it to its
\* caller: no active call goes on after a failed build step; the caller gets
\* SoftwarePackageError, the staged source tree is still there and no verify() ran
\* after the build; the build steps never change is_installed.
C14_BuildFailureVisible ==
    /\ [](\A p \in Procs :
            /\ \A fr \in Frames(p) : StepsOf(fr.trace) \cap FailedSteps = {}
            /\ BuildRaised(p) =>
                 /\ history[p][Len(history[p])].result = "SoftwarePackageError"
                 /\ outcome[p] = "SoftwarePackageError"
                 /\ "rmtree_src" \notin StepsOf(trace[p])
                 /\ src_prefix[failed[p]] \in src_tree[failed[p]]
                 /\ \A j \in 1 .. Len(trace[p]) :
                      trace[p][j].op \in {"verify_ok", "verify_fail"} =>
                         \A h \in 1 .. j : trace[p][h].op \notin DriverSteps)
    /\ [][\A p \in Procs :
            (At(p, "configure") \/ At(p, "make") \/ At(p, "make_install")) =>
                /\ is_installed' = is_installed
                /\ src_tree' = src_tree
                /\ stack'[p] = <<>> => outcome'[p] = "SoftwarePackageError"]_vars

\* make failed in parallel and serially, and install() raised
C14_Witness ==
    /\ BuildRaised(1)
    /\ trace[1][Len(trace[1])].op = "make_serial_fail"
    /\ outcome[1] = "SoftwarePackageError"
    /\ src_prefix[failed[1]] \in src_tree[failed[1]]

\* C33: while the install() of a dependency is active its dependents have taken no
\* step of their own and their install-prefixes stay as they are; control comes back
\* to a dependent only from a dependency whose prefix passes verify(); an exception
\* of the dependency ends every active call with that exception, the dependent not
\* built.
C33_DependencyFailureLeavesDependent ==
    /\ [](\A p \in Procs : \A k \in 1 .. (Len(stack[p]) - 1) :
            StepsOf(stack[p][k].trace) \subseteq {"call", "return"})
    /\ [][\A p \in Procs :
            Len(stack[p]) >= 2 /\ stack'[p] # stack[p] =>
                /\ \A k \in 1 .. (Len(stack[p]) - 1) :
                     fs'[install_prefix[stack[p][k].obj]] = fs[install_prefix[stack[p][k].obj]]
                /\ Len(stack'[p]) = Len(stack[p]) - 1 =>
                     verify(Top(p).obj, fs') = "ok"
                /\ stack'[p] = <<>> =>
                     /\ outcome'[p] \in {"SoftwarePackageError", "ConfigurationError", "IOError"}
                     /\ failed'[p] = Top(p).obj
                     /\ ~history'[p][Len(history'[p])].built]_vars

\* the forced install() of a dependency deleted its prefix and then failed, and the
\* dependent's valid prefix is as it was
C33_Witness ==
    /\ FirstCallEnded(1) /\ history[1][1].force
    /\ outcome[1] = "ConfigurationError"
    /\ failed[1] # root[1] /\ src[failed[1]]
    /\ ~fs[install_prefix[failed[1]]].exists
    /\ fs[install_prefix[root[1]]] = ValidFS

\* C34: when the most recent install() of an installation raised, its is_installed
\* flag is false.
C34_FailedInstallNotMarkedInstalled ==
    \A p \in Procs :
        (/\ stack[p] = <<>> /\ calls[p] >= 1
         /\ outcome[p] \in {"SoftwarePackageError", "ConfigurationError", "IOError"})
            => ~is_installed[root[p]]

\* C27: when install(force_reinstall=True) is called on an installation with a source
\* whose prefix passes verify() (is_installed is what the constructor's verify() found, and nothing
\* has changed the prefix before this first call) and source acquisition or staging
\* fails with ConfigurationError, the prefix still passes verify() afterwards.
C27_FailedAcquisitionKeepsInstallation ==
    \A p \in Procs :
        (/\ FirstCallEnded(p)
         /\ history[p][1].force
         /\ outcome[p] = "ConfigurationError"
         /\ src[failed[p]]
         /\ is_installed[failed[p]]) =>
            VerifyOwn(failed[p], fs[install_prefix[failed[p]]]) = "ok"

(***************************************************************************)
(* The fresh install: no install-prefix exists, no archive is cached, and  *)
(* every installation of the tree has a source to download.                *)
(***************************************************************************)
InitFresh ==
    /\ InitInstall
    /\ \A o \in Objs : src[o]
    /\ fs = [d \in Prefixes |-> AbsentFS]
    /\ archive_file = [o \in Objs |-> NoArchive]

SpecFresh == InitFresh /\ [][Next]_vars

\* the steps that acquire, stage, build, clean up and confirm
MainSteps ==
    DriverSteps \cup {"copy", "download", "download_fail", "unreadable", "reuse_tree",
                      "extract", "extract_fail", "rmtree_src", "verify_ok"}

\* an external step failed: a download, an extraction, a subprocess
ExternalFailures ==
    FailedSteps \cup {"make_parallel_fail", "download_fail", "unreadable", "extract_fail"}

\* the main steps among the steps tr, in their order
MainRunOf(tr) ==
    LET b == SelectSeq(tr, LAMBDA e : e.op \in MainSteps)
    IN  [k \in 1 .. Len(b) |-> b[k].op]

FreshRun ==
    <<"download", "extract", "configure_ok", "make_parallel_ok", "make_install_ok",
      "rmtree_src", "verify_ok">>

\* the install-prefix of o did not exist when process p began its first install():
\* nothing but the __enter__ of p, which makes the directory of its own
\* installation, has created a prefix before
NoPrefixAtCall(p, o) == ~((inscope[p] \/ released[p] # "none") /\ o = root[p])

\* C15: from a state with no prefix and no cached archive, an
\* install(force_reinstall=False) in which no external step fails and the build
\* leaves the required files downloads the archive, extracts it, runs configure,
\* make and make install, deletes the staged source tree and verifies, in this
\* order, for the package and for each dependency, and returns with is_installed set.
C15_FreshInstall ==
    \A p \in Procs :
        /\ calls[p] = 1 =>
             \A fr \in Frames(p) :
                 (/\ ~fr.force
                  /\ NoPrefixAtCall(p, fr.obj)
                  /\ StepsOf(fr.trace) \cap ExternalFailures = {}) =>
                     /\ IsPrefix(MainRunOf(fr.trace), FreshRun)
                     /\ "rmtree_prefix" \notin StepsOf(fr.trace)
        /\ (/\ FirstCallEnded(p)
            /\ ~history[p][1].force
            /\ NoPrefixAtCall(p, root[p])
            /\ StepsOf(trace[p]) \cap ExternalFailures = {}
            /\ trace[p][Len(trace[p])].op # "verify_fail") =>
               /\ MainRunOf(trace[p]) = FreshRun
               /\ history[p][1].result = "ok"
               /\ is_installed[root[p]]
               /\ verify(root[p], fs) = "ok"

C15_Witness ==
    /\ FirstCallEnded(1)
    /\ ~history[1][1].force
    /\ MainRunOf(trace[1]) = FreshRun
    /\ history[1][1].result = "ok"
    /\ is_installed[root[1]]
    /\ NoPrefixAtCall(1, root[1])
    /\ dependencies[root[1]] # <<>>

(***************************************************************************)
(* Two processes, each wrapping install() in the with-scope of its own     *)
(* installation; the two installations have source and share one           *)
(* install-prefix, and the first one has a dependency in a prefix of its   *)
(* own.                                                                    *)
(***************************************************************************)
SharedDependencies == [o \in Objs |-> IF o = 1 THEN <<3>> ELSE <<>>]

SharedPrefix == [o \in Objs |-> IF o = 2 THEN 1 ELSE o]

InitLock ==
    /\ dependencies = SharedDependencies
    /\ install_prefix = SharedPrefix
    /\ src = [o \in Objs |-> TRUE]
    /\ verify_commands = [o \in Objs |-> Cmds]
    /\ verify_libraries = [o \in Objs |-> Libs]
    /\ verify_headers = [o \in Objs |-> Hdrs]
    /\ fs \in [Prefixes -> {AbsentFS, ValidFS}]
    /\ \A d \in Prefixes : d \notin {1, 3} => fs[d] = AbsentFS
    /\ archive_file = [o \in Objs |-> [NoArchive EXCEPT ![NLevels] = "good"]]
    /\ src_tree = [o \in Objs |-> {}]
    /\ writable = {NLevels}
    /\ shm_available = TRUE
    /\ root = [p \in Procs |-> p]
    /\ ppc = [p \in Procs |-> "start"]
    /\ Constructed
    /\ Idle

SpecLock == InitLock /\ [][Next]_vars

(***************************************************************************)
(* Properties of the with-scope.                                           *)
(***************************************************************************)
\* C6: two processes whose installations have source and the same install-prefix
\* are never inside the with-scope at the same time.
C6_MutualExclusion ==
    \A p, q \in Procs :
        (/\ p # q
         /\ src[root[p]] /\ src[root[q]]
         /\ install_prefix[root[p]] = install_prefix[root[q]]) =>
            ~(inscope[p] /\ inscope[q])

\* what the body of the with-scope of p ended with
ScopeResult(p) ==
    IF history[p] = <<>> THEN "none" ELSE history[p][Len(history[p])].result

\* C7: a process that has left the with-scope has attempted the release, does not
\* hold the lock, and its caller sees what the body of the scope ended with: the
\* exception raised inside it, or a normal completion.
C7_ReleasedOnEveryExit ==
    \A p \in Procs :
        released[p] # "none" =>
            /\ released[p] \in {"released", "NotLocked"}
            /\ ppc[p] = "done"
            /\ ~inscope[p]
            /\ fs[install_prefix[root[p]]].lock # p
            /\ outcome[p] = ScopeResult(p)

(***************************************************************************)
(* verify() called on its own (software/installation.py:244-277), on an    *)
(* installation with dependencies and any set of requirements, over every  *)
(* content of its install-prefix.                                          *)
(***************************************************************************)
\* a top-level verify() of the process's installation; the step it ends with is
\* "ok" or the reason of the SoftwarePackageError it raises
VerifyCall(p) ==
    /\ ppc[p] = "start"
    /\ LET o == root[p] IN
         /\ is_installed' = Marked(o, fs)
         /\ outcome' = [outcome EXCEPT ![p] =
                          IF verify(o, fs) = "ok" THEN "ok" ELSE "SoftwarePackageError"]
         /\ trace' = [trace EXCEPT ![p] = <<Ev(verify(o, fs), o)>>]
    /\ ppc' = [ppc EXCEPT ![p] = "done"]
    /\ UNCHANGED <<config, src_prefix, fs, archive_file, src_tree, stack, calls,
                   inscope, released, failed, history>>

NextVerify == \E p \in Procs : VerifyCall(p)

\* the contents an existing install-prefix may have: <prefix>/lib is a directory
\* when it holds a file, and may be a link to a lib64 that holds one
PrefixContents ==
    {[exists |-> TRUE, bin |-> b, libdir |-> ld, lib |-> l, lib64dir |-> l64 # {},
      lib64 |-> l64, inc |-> h, lock |-> None, uniq |-> {}] :
        b \in [Cmds -> {"missing", "noexec", "ok"}],
        ld \in {"absent", "dir", "link"},
        l \in SUBSET Libs, l64 \in SUBSET Libs, h \in SUBSET Hdrs}

\* the requirement lists of the verified installation: the first k names, for every k
Required(n) == {1 .. k : k \in 0 .. n}

WellFormedFS(d) ==
    /\ d.libdir = "dir" <=> d.lib # {}
    /\ d.libdir = "link" => d.lib64dir

InitVerify ==
    /\ dependencies = TreeDependencies
    /\ install_prefix = [o \in Objs |-> o]
    /\ src = [o \in Objs |-> TRUE]
    /\ \E cs \in Required(NCmds), ls \in Required(NLibs), hs \in Required(NHdrs) :
         /\ verify_commands = [o \in Objs |-> IF o = 1 THEN cs ELSE Cmds]
         /\ verify_libraries = [o \in Objs |-> IF o = 1 THEN ls ELSE Libs]
         /\ verify_headers = [o \in Objs |-> IF o = 1 THEN hs ELSE Hdrs]
    /\ \E d1 \in {AbsentFS} \cup {d \in PrefixContents : WellFormedFS(d)},
          d2 \in {AbsentFS, ValidFS, Valid64FS} :
         fs = [d \in Prefixes |-> IF d = 1 THEN d1 ELSE IF d = 2 THEN d2 ELSE ValidFS]
    /\ archive_file = [o \in Objs |-> NoArchive]
    /\ src_tree = [o \in Objs |-> {}]
    /\ writable = {NLevels}
    /\ shm_available = TRUE
    /\ root = [p \in Procs |-> 1]
    /\ ppc = [p \in Procs |-> IF p = 1 THEN "start" ELSE "done"]
    /\ Constructed
    /\ Idle

SpecVerify == InitVerify /\ [][NextVerify]_vars

(***************************************************************************)
(* Properties of verify().                                                 *)
(***************************************************************************)
\* process p has called verify() on its installation
Verified(p) == ppc[p] = "done" /\ trace[p] # <<>>

\* a required command is missing or not executable, a required library is
\* inaccessible under both lib and lib64, or a required header is unreadable
RequirementUnmet(o) ==
    LET d == fs[install_prefix[o]] IN
        \/ \E c \in verify_commands[o] : d.bin[c] \in {"missing", "noexec"}
        \/ \E l \in verify_libraries[o] : ~LibAccessible(d, l) /\ ~Lib64Accessible(d, l)
        \/ \E h \in verify_headers[o] : ~HeaderAccessible(d, h)

DependencyFails(o) ==
    \E i \in 1 .. Len(dependencies[o]) : verify(dependencies[o][i], fs) # "ok"

\* C8 as stated: verify() fails if and only if a required command is missing or not
\* executable, a required library is inaccessible under both lib and lib64, a
\* required header is unreadable, or a dependency fails its own verify(); in every
\* other case it succeeds and sets is_installed.
C8_FailsIffRequirementUnmet ==
    \A p \in Procs : Verified(p) =>
        /\ outcome[p] = "SoftwarePackageError"
             <=> (RequirementUnmet(root[p]) \/ DependencyFails(root[p]))
        /\ outcome[p] # "SoftwarePackageError"
             => (outcome[p] = "ok" /\ is_installed[root[p]])

\* C8 amended: verify() fails if and only if the install-prefix directory does not
\* exist, or a required command is missing or not executable, a required library is
\* inaccessible under both lib and lib64, a required header is unreadable, or a
\* dependency fails its own verify(); in every other case it succeeds and sets
\* is_installed.
C8_FailsIffPrefixOrRequirementUnmet ==
    \A p \in Procs : Verified(p) =>
        /\ outcome[p] = "SoftwarePackageError"
             <=> \/ ~fs[install_prefix[root[p]]].exists
                 \/ RequirementUnmet(root[p])
                 \/ DependencyFails(root[p])
        /\ outcome[p] # "SoftwarePackageError"
             => (outcome[p] = "ok" /\ is_installed[root[p]])

\* verify() failed on a prefix that does not exist although nothing is required of it
C8_Witness ==
    /\ Verified(1)
    /\ ~fs[install_prefix[1]].exists
    /\ ~RequirementUnmet(1) /\ ~DependencyFails(1)
    /\ outcome[1] = "SoftwarePackageError"

\* C9: a required library that is accessible under lib64 and not under lib passes
\* the library check; verify() fails on a library only when that library is
\* inaccessible under both directories.
C9_Lib64Fallback ==
    \A p \in Procs : (Verified(p) /\ ~DependencyFails(root[p])) =>
        LET o == root[p]
            d == fs[install_prefix[o]]
            reason == trace[p][1].op
        IN  /\ reason = "lib" =>
                 \E l \in verify_libraries[o] : ~LibAccessible(d, l) /\ ~Lib64Accessible(d, l)
            /\ (/\ d.exists
                /\ \A c \in verify_commands[o] : d.bin[c] = "ok"
                /\ \A l \in verify_libraries[o] : LibAccessible(d, l) \/ Lib64Accessible(d, l))
                 => reason \in {"ok", "hdr"}

\* verify() succeeded on a prefix that holds a required library under lib64 only
C9_Witness ==
    /\ Verified(1)
    /\ outcome[1] = "ok"
    /\ \E l \in verify_libraries[1] :
         /\ Lib64Accessible(fs[install_prefix[1]], l)
         /\ ~LibAccessible(fs[install_prefix[1]], l)

(***************************************************************************)
(* The build steps called on their own (software/installation.py:372-446)  *)
(* on an installation whose source is staged, with any flags, environment  *)
(* and parallel argument, the subprocesses exiting with any status.        *)
(***************************************************************************)
\* what the caller passed
DriverCall(method, flags, env, parallel) ==
    [op |-> "call", method |-> method, flags |-> flags, env |-> env,
     parallel |-> parallel]

\* one subprocess the step created, and its exit status
DriverRun(c, x) == [op |-> StepName(c, x), cmd |-> c, status |-> x]

\* the call ran r under the exit statuses st: the caller sees the exception or the
\* normal return
Driven(p, call, r, st) ==
    /\ ppc[p] = "start"
    /\ src_prefix[root[p]] # None
    /\ calls[p] < MaxCalls
    /\ calls' = [calls EXCEPT ![p] = @ + 1]
    /\ trace' = [trace EXCEPT ![p] =
                   <<call>> \o [k \in 1 .. Len(r.cmds) |-> DriverRun(r.cmds[k], st[k])]]
    /\ outcome' = [outcome EXCEPT ![p] =
                     IF r.raised THEN "SoftwarePackageError" ELSE "ok"]
    /\ UNCHANGED <<config, is_installed, src_prefix, archive_file, src_tree, ppc,
                   stack, inscope, released, failed, history>>

ConfigureCall(p) ==
    \E flags \in FlagLists, env \in Envs, st \in Statuses :
        /\ Driven(p, DriverCall("configure", flags, env, FALSE),
                  configure(flags, env, st), st)
        /\ fs' = fs

MakeCall(p) ==
    \E flags \in FlagLists, env \in Envs, parallel \in BOOLEAN, st \in Statuses :
        /\ Driven(p, DriverCall("make", flags, env, parallel),
                  make(flags, env, parallel, st), st)
        /\ fs' = fs

MakeInstallCall(p) ==
    \E flags \in FlagLists, env \in Envs, parallel \in BOOLEAN, st \in Statuses :
        LET r == make_install(flags, env, parallel, st)
            d == install_prefix[root[p]]
        IN  /\ Driven(p, DriverCall("make install", flags, env, parallel), r, st)
            /\ \E out \in (IF r.raised THEN FailedOutputs(fs[d]) ELSE BuildOutputs) :
                 fs' = [fs EXCEPT ![d] = AfterMakeInstall(r, fs[d], out)]

NextBuild == \E p \in Procs : ConfigureCall(p) \/ MakeCall(p) \/ MakeInstallCall(p)

\* one installation without dependencies whose source tree is staged
InitBuild ==
    /\ sources = [o \in Objs |-> "download"]
    /\ target = <<"x86_64", "Linux">>
    /\ dependencies = [o \in Objs |-> <<>>]
    /\ install_prefix = [o \in Objs |-> o]
    /\ src = [o \in Objs |-> TRUE]
    /\ verify_commands = [o \in Objs |-> Cmds]
    /\ verify_libraries = [o \in Objs |-> Libs]
    /\ verify_headers = [o \in Objs |-> Hdrs]
    /\ fs = [d \in Prefixes |-> AbsentFS]
    /\ is_installed = [o \in Objs |-> FALSE]
    /\ archive_file = [o \in Objs |-> [NoArchive EXCEPT ![NLevels] = "good"]]
    /\ src_prefix = [o \in Objs |-> IF o = 1 THEN NLevels ELSE None]
    /\ src_tree = [o \in Objs |-> IF o = 1 THEN {NLevels} ELSE {}]
    /\ writable = {NLevels}
    /\ shm_available = FALSE
    /\ root = [p \in Procs |-> 1]
    /\ ppc = [p \in Procs |-> IF p = 1 THEN "start" ELSE "done"]
    /\ Idle

SpecBuild == InitBuild /\ [][NextBuild]_vars

(***************************************************************************)
(* Properties of the build steps.                                          *)
(***************************************************************************)
\* process p has called the build step `method` on its own
Drove(p, method) == trace[p] # <<>> /\ trace[p][1].op = "call" /\ trace[p][1].method = method

\* the subprocesses the last call of p created
Runs(p) == Tail(trace[p])

\* C11: make() called with parallel=True runs make with the parallelism flags; when
\* that exits zero nothing else is run; when it exits non-zero make is run exactly
\* once more, with the same flags and environment and without the parallelism
\* flags, and SoftwarePackageError is raised exactly when this second run fails too.
C11_ParallelMakeRetriedOnce ==
    \A p \in Procs : (Drove(p, "make") /\ trace[p][1].parallel) =>
        LET c == trace[p][1]
            runs == Runs(p)
        IN  /\ Len(runs) >= 1
            /\ runs[1].cmd = Command("make", TRUE, FALSE, c.flags, c.env)
            /\ IF runs[1].status = 0
               THEN Len(runs) = 1 /\ outcome[p] = "ok"
               ELSE /\ Len(runs) = 2
                    /\ runs[2].cmd = Command("make", FALSE, FALSE, c.flags, c.env)
                    /\ outcome[p] = "SoftwarePackageError" <=> runs[2].status # 0
                    /\ outcome[p] = "ok" <=> runs[2].status = 0

\* a parallel make failed, the serial one succeeded, and make() returned normally
C11_Witness ==
    /\ Drove(1, "make") /\ trace[1][1].parallel
    /\ trace[1][1].flags # 0 /\ trace[1][1].env # 0
    /\ Len(Runs(1)) = 2
    /\ Runs(1)[1].status # 0 /\ Runs(1)[2].status = 0
    /\ outcome[1] = "ok"

\* C12: configure(), make() called with parallel=False and make_install() run their
\* command exactly once; when it exits non-zero they raise SoftwarePackageError
\* without running anything again.
C12_OtherFailuresNotRetried ==
    \A p \in Procs :
        (\/ Drove(p, "configure")
         \/ Drove(p, "make install")
         \/ Drove(p, "make") /\ ~trace[p][1].parallel) =>
            /\ Len(Runs(p)) = 1
            /\ outcome[p] = "SoftwarePackageError" <=> Runs(p)[1].status # 0


\* C28: when no install-prefix existed beforehand, a process that enters the
\* with-scope and then calls install(force_reinstall=False) builds the package (runs
\* configure, make and make install) before install() returns normally.
C28_LockDoesNotFakeInstallation ==
    \A p \in Procs :
        (/\ inscope[p]
         /\ FirstCallEnded(p)
         /\ ~history[p][1].force
         /\ outcome[p] = "ok") => history[p][1].built

(***************************************************************************)
(* Source acquisition: the archive caches of the storage levels hold a     *)
(* readable archive, an unreadable one or nothing; the highest or the      *)
(* lowest level is the writable one; the package is not installed and its  *)
(* dependency is.                                                          *)
(***************************************************************************)
InitSource ==
    /\ dependencies = SharedDependencies
    /\ install_prefix = [o \in Objs |-> o]
    /\ src = [o \in Objs |-> TRUE]
    /\ verify_commands = [o \in Objs |-> Cmds]
    /\ verify_libraries = [o \in Objs |-> Libs]
    /\ verify_headers = [o \in Objs |-> Hdrs]
    /\ fs = [d \in Prefixes |-> IF d = 1 THEN AbsentFS ELSE ValidFS]
    /\ \E ar \in [Levels -> {"absent", "corrupt", "good"}] :
         archive_file = [o \in Objs |-> [d \in Dirs |-> IF d \in Levels THEN ar[d] ELSE "absent"]]
    /\ \E staged \in SUBSET Levels : src_tree = [o \in Objs |-> staged]
    /\ writable \in {{NLevels}, {1}}
    /\ shm_available \in BOOLEAN
    /\ root = [p \in Procs |-> 1]
    /\ ppc = [p \in Procs |-> IF p = 1 THEN "start" ELSE "done"]
    /\ Constructed
    /\ Idle

SpecSource == InitSource /\ [][Next]_vars

\* the cache directories that hold the archive file of o
Holding(o) == {k \in Levels : archive_file[o][k] # "absent"}

\* process p takes a step of the call on top of its stack
Moves(p) == stack[p] # <<>> /\ stack'[p] # stack[p]

\* the steps this step of p adds to the steps of its innermost call
NewSteps(p) ==
    LET old == Len(Top(p).trace)
        now == IF stack'[p] # <<>> THEN stack'[p][Len(stack'[p])].trace ELSE trace'[p]
    IN  {now[j].op : j \in (old + 1) .. Len(now)}

DownloadSteps == {"download", "download_fail"}

\* C20: with reuse=true the caches are searched from the highest precedence down and
\* nothing is downloaded; the archive found is copied exactly when the build prefix
\* is not the cache directory it was found in; a readable archive is used as it is,
\* and when no level holds the file the source is downloaded.
C20_AcquireWithReuse ==
    /\ [][\A p \in Procs :
            At(p, "prepare") /\ Top(p).reuse /\ Moves(p) =>
                LET fr == Top(p)
                    found == Holding(fr.obj)
                    bp == IF fr.build_prefix = None THEN NLevels ELSE fr.build_prefix
                IN  /\ NewSteps(p) \cap DownloadSteps = {}
                    /\ found = {} => stack'[p] # <<>> /\ "copy" \notin NewSteps(p)
                    /\ found # {} /\ stack'[p] = <<>> => bp # Max(found)
                    /\ found # {} /\ stack'[p] # <<>> =>
                         /\ stack'[p][Len(stack'[p])].archive = Max(found)
                         /\ "copy" \in NewSteps(p) <=> bp # Max(found)]_vars
    /\ [][\A p \in Procs :
            At(p, "toplevel") /\ Top(p).reuse /\ Moves(p) =>
                LET fr == Top(p)
                    nfr == stack'[p][Len(stack'[p])]
                IN  /\ stack'[p] # <<>>
                    /\ IF Holding(fr.obj) # {} /\ archive_file[fr.obj][fr.archive] = "good"
                       THEN nfr.pc = "extract" /\ nfr.reuse
                       ELSE nfr.pc = "prepare" /\ ~nfr.reuse]_vars
    /\ [][\A p \in Procs :
            At(p, "prepare") /\ ~Top(p).reuse /\ Moves(p) =>
                NewSteps(p) \cap DownloadSteps # {}]_vars
    /\ [](\A p \in Procs : \A fr \in Frames(p) :
            StepsOf(fr.trace) \cap DownloadSteps # {} =>
                ~fr.reuse /\ "retry" \in StepsOf(fr.trace))

\* the archive was found in the cache of a lower level while a higher level held
\* none, and copied to the build prefix
C20_Witness ==
    \E fr \in Frames(1) :
        /\ fr.pc = "extract" /\ fr.reuse
        /\ fr.archive < NLevels
        /\ "copy" \in StepsOf(fr.trace)
        /\ fr.build_prefix # fr.archive

\* C29: when install() has no build directory in shared memory and passes
\* build_prefix = None, _prepare_src works in the src directory of the highest
\* writable storage level, on the first attempt and on the retry, and writes under no
\* other storage level.
C29_BuildPrefixFallback ==
    /\ [](~shm_available =>
            \A p \in Procs : \A fr \in Frames(p) :
                fr.entered > 0 => fr.build_prefix = Max(writable))
    /\ [][~shm_available =>
            \A o \in Objs : \A k \in Levels \ {Max(writable)} :
                /\ archive_file'[o][k] = archive_file[o][k]
                /\ k \in src_tree'[o] <=> k \in src_tree[o]]_vars

\* the objects whose install(), called by p at top level, built them and returned
\* normally
BuiltAndReturned(p) ==
    {o \in Objs : /\ stack[p] = <<>> /\ outcome[p] = "ok"
                  /\ Ev("make_install_ok", o) \in Range(trace[p])}

\* a search of the caches with reuse=true ends at a readable archive of o
ReusableArchive(o) ==
    Holding(o) # {} /\ archive_file[o][CacheHit(Holding(o))] = "good"

\* C30: after install() returns normally following a build, the staged source tree is
\* gone and some level's cache holds the archive, which a later _prepare_src with
\* reuse=true finds and reads without downloading.
C30_ArchiveRetainedForReuse ==
    \A p \in Procs : \A o \in BuiltAndReturned(p) :
        /\ src_prefix[o] \notin src_tree[o]
        /\ ReusableArchive(o)

\* C31: once the archive is read, extraction is skipped exactly when reuse is true and
\* the directory of the staged tree exists; otherwise the archive is extracted anew
\* into the build prefix (or the extraction fails); a call that went through the
\* corrupt-archive retry never reuses a staged tree.
C31_StagingFastPath ==
    /\ [][\A p \in Procs :
            At(p, "extract") /\ Moves(p) =>
                LET fr == Top(p)
                    o == fr.obj
                    bp == fr.build_prefix
                    skip == fr.reuse /\ bp \in src_tree[o]
                IN  /\ "reuse_tree" \in NewSteps(p) <=> skip
                    /\ skip => /\ src_tree' = src_tree
                               /\ NewSteps(p) \cap {"extract", "extract_fail"} = {}
                    /\ ~skip => /\ NewSteps(p) \cap {"extract", "extract_fail"} # {}
                                /\ "extract" \in NewSteps(p) =>
                                     bp \in src_tree'[o] /\ src_prefix'[o] = bp]_vars
    /\ [](\A p \in Procs : \A fr \in Frames(p) :
            "retry" \in StepsOf(fr.trace) => "reuse_tree" \notin StepsOf(fr.trace))

\* a call with reuse=true found the staged tree of an earlier build in its build
\* prefix and went on to configure without extracting
C31_Witness ==
    \E fr \in Frames(1) :
        /\ fr.pc = "configure" /\ fr.reuse
        /\ "reuse_tree" \in StepsOf(fr.trace)
        /\ fr.build_prefix \in src_tree[fr.obj]

\* C35: when install() has finished, normally or with an exception, nothing is left
\* of the build directory it made in shared memory: neither the archive copied or
\* downloaded into it nor a source tree.
C35_NoBuildDirectoryLeft ==
    \A p \in Procs :
        (stack[p] = <<>> /\ calls[p] >= 1 /\ outcome[p] # "none") =>
            \A o \in Objs : archive_file[o][Shm] = "absent" /\ Shm \notin src_tree[o]

\* the last top-level call of p ended in _prepare_src
PrepareSrcFailed(p) == stack[p] = <<>> /\ outcome[p] \in {"ConfigurationError", "IOError"}

\* C21: when the source cannot be obtained, read or extracted, _prepare_src fails with
\* ConfigurationError and with no other error, and src_prefix names no staged tree.
C21_PrepareSrcFailsWithConfigurationError ==
    \A p \in Procs :
        PrepareSrcFailed(p) =>
            /\ outcome[p] = "ConfigurationError"
            /\ src_prefix[failed[p]] \notin src_tree[failed[p]]

(***************************************************************************)
(* Installation.__init__ (software/installation.py:78-142): the source is  *)
(* resolved, its hash names the install-prefix, and the storage levels are *)
(* searched for an installation that already verifies.                     *)
(***************************************************************************)
Keyword == "download"
Urls == {"http://a", "http://b"}
Specifiers == {"download", "DOWNLOAD"} \cup Urls
Archs == {"x86_64", "ppc64"}
OSes == {"Linux", "Darwin"}
Targets == Archs \X OSes

\* the `repos` argument: the key None holds the default, an architecture holds a
\* dictionary indexed by operating system
Repos == [k \in {"None", "ppc64"} |->
            IF k = "None" THEN "http://a" ELSE [j \in {"Linux"} |-> "http://b"]]

\* dict.get(key, default)
Get(dct, key, default) == IF key \in DOMAIN dct THEN dct[key] ELSE default

\* lines 151-160 (dct is never empty here)
lookup_target_os_list(dct, t) ==
    LET default == dct["None"] IN
    IF t[1] \notin DOMAIN dct THEN default
    ELSE Get(dct[t[1]], t[2], Get(dct[t[1]], "None", default))

lower_unchanged(s) == s

\* str.lower() on the specifiers drawn
lower(s) == IF s = "DOWNLOAD" THEN "download" ELSE s

\* line 125: self.src
ResolveSrc(s, t) == IF lower(s) # Keyword THEN s ELSE lookup_target_os_list(Repos, t)

\* lines 126-128: the hex digest of the source, injective
md5(s) == <<"md5", s>>

\* the `name` argument: installations 1 and 2 are of the same package
PackageName(o) == IF o = 2 THEN 1 ELSE o

\* lines 131, 141: <storage.prefix>/<prefix>/<name>/<uid>
Candidate(k, n, uid) == [level |-> k, name |-> n, uid |-> uid]

Candidates ==
    {Candidate(k, PackageName(o), md5(s)) : k \in Levels, o \in Objs, s \in Specifiers}

\* the install-prefix of an object whose constructor has not run
NoPrefix == Candidate(None, None, md5(""))

\* lines 130-138: the levels whose candidate prefix passes verify(); no dependency
\* has been added when the constructor runs
Found(o, uid) ==
    {k \in Levels : VerifyOwn(o, fs[Candidate(k, PackageName(o), uid)]) = "ok"}

LowestFound(o, uid) == Min(Found(o, uid))

\* lines 130-138: reversed(ORDERED_LEVELS) is scanned and left at the first success
FirstFound(o, uid) == Max(Found(o, uid))

HighestLevel == NLevels

\* lines 139-141: no installation found
FreshLevel == highest_writable_storage

FoundWritable(o, uid) == Found(o, uid) \cap writable # {}

\* lines 130-138: the loop ended with break
SearchSucceeded(o, uid) == Found(o, uid) # {}

\* lines 117-141 for a source that is not a directory
Installation(o, s, t) ==
    LET uid == md5(ResolveSrc(s, t)) IN
    IF SearchSucceeded(o, uid)
    THEN [install_prefix |-> Candidate(FirstFound(o, uid), PackageName(o), uid),
          is_installed |-> TRUE]
    ELSE [install_prefix |-> Candidate(FreshLevel, PackageName(o), uid),
          is_installed |-> FALSE]

\* the process constructs its installations, one after the other, for one target
Construct(p) ==
    /\ ppc[p] = "new"
    /\ \E t \in Targets : \E s \in [{1, 2} -> Specifiers] :
         LET given == [o \in Objs |-> IF o \in {1, 2} THEN s[o] ELSE "http://a"]
             made == [o \in Objs |-> Installation(o, given[o], t)]
         IN  /\ sources' = given
             /\ target' = t
             /\ src' = [o \in Objs |-> TRUE]
             /\ install_prefix' = [o \in Objs |-> made[o].install_prefix]
             /\ is_installed' = [o \in Objs |-> made[o].is_installed]
    /\ ppc' = [ppc EXCEPT ![p] = "start"]
    /\ UNCHANGED <<selected, targets, dependencies, verify_commands,
                   verify_libraries, verify_headers, writable, shm_available, root,
                   src_prefix, fs, archive_file, src_tree, stack, outcome, calls, inscope, released, trace, failed,
                   history>>

\* construction, then install(force_reinstall=False) as far as its short cut at
\* lines 469-473
NextStorage ==
    \E p \in Procs :
        \/ Construct(p)
        \/ CallInstall(p, FALSE)
        \/ InstallDependency(p)
        \/ InstallCheck(p)

\* Nothing is constructed yet.  The candidate prefixes of package 1 under the first
\* URL hold an installation, a bare directory or nothing, level by level; those
\* under the second URL hold an installation at every level or at none; the
\* dependency is installed at the lowest level.
InitStorage ==
    /\ sources = [o \in Objs |-> ""]
    /\ target = <<"", "">>
    /\ dependencies = SharedDependencies
    /\ src = [o \in Objs |-> FALSE]
    /\ install_prefix = [o \in Objs |-> NoPrefix]
    /\ verify_commands = [o \in Objs |-> Cmds]
    /\ verify_libraries = [o \in Objs |-> Libs]
    /\ verify_headers = [o \in Objs |-> Hdrs]
    /\ is_installed = [o \in Objs |-> FALSE]
    /\ src_prefix = [o \in Objs |-> None]
    /\ \E a \in [Levels -> {AbsentFS, EmptyFS, ValidFS}] :
       \E b \in {[k \in Levels |-> x] : x \in {AbsentFS, ValidFS}} :
         fs = [d \in Candidates |->
                 IF d.name = 1
                 THEN (IF d.uid = md5("http://a") THEN a[d.level]
                       ELSE IF d.uid = md5("http://b") THEN b[d.level]
                       ELSE AbsentFS)
                 ELSE IF d.level = 1 /\ d.uid = md5("http://a") THEN ValidFS
                 ELSE AbsentFS]
    /\ archive_file = [o \in Objs |-> NoArchive]
    /\ src_tree = [o \in Objs |-> {}]
    /\ writable \in SUBSET Levels \ {{}}
    /\ shm_available = FALSE
    /\ root = [p \in Procs |-> 1]
    /\ ppc = [p \in Procs |-> IF p = 1 THEN "new" ELSE "done"]
    /\ Idle

SpecStorage == InitStorage /\ [][NextStorage]_vars

(***************************************************************************)
(* Properties of the constructor.                                          *)
(***************************************************************************)
\* the installations of process 1 exist
IsConstructed == ppc[1] # "new"

\* the storage levels where the prefix of o, moved to that level, passes verify()
ValidLevels(o) ==
    {k \in Levels : VerifyOwn(o, fs[[install_prefix[o] EXCEPT !.level = k]]) = "ok"}

\* C16: when some storage level, writable or not, holds a prefix of the installation
\* that passes verify(), the constructor selects a prefix that passes verify(), and
\* install(force_reinstall=False) calls that follow neither delete the prefix nor
\* download, extract or build: each verifies and returns.
C16_ReuseAcrossLevels ==
    IsConstructed =>
        \A p \in Procs : LET o == root[p] IN
            ValidLevels(o) # {} =>
                /\ install_prefix[o].level \in ValidLevels(o)
                /\ is_installed[o]
                /\ \A fr \in Frames(p) :
                     fr.obj = o =>
                        /\ fr.pc = "deps"
                        /\ StepsOf(fr.trace) \subseteq {"call", "return"}
                /\ stack[p] = <<>> /\ calls[p] > 0 =>
                     /\ outcome[p] = "ok"
                     /\ StepsOf(trace[p]) \cap BuildSteps = {}
                     /\ "verify_ok" \in StepsOf(trace[p])
                     /\ \A j \in 1 .. Len(history[p]) :
                          history[p][j].result = "ok" /\ ~history[p][j].built

\* an installation found at a level that is not writable has been installed again
C16_Witness ==
    /\ IsConstructed
    /\ install_prefix[1].level \notin writable
    /\ ValidLevels(1) = {install_prefix[1].level}
    /\ stack[1] = <<>> /\ calls[1] > 0 /\ outcome[1] = "ok"

\* C17: the constructor selects the highest-precedence level whose candidate prefix
\* passes verify(), also when lower levels hold a valid installation too.
C17_HighestValidLevel ==
    IsConstructed =>
        \A o \in Objs :
            ValidLevels(o) # {} => install_prefix[o].level = Max(ValidLevels(o))

C17_Witness ==
    /\ IsConstructed
    /\ \E o \in Objs : Cardinality(ValidLevels(o)) > 1 /\ install_prefix[o].level = NLevels

\* C18: when no level's candidate prefix passes verify(), the install-prefix is at
\* the highest-precedence writable level and is_installed is false; the
\* constructor changes nothing on disk.
C18_FreshPrefix ==
    /\ [](IsConstructed =>
            \A o \in Objs :
                ValidLevels(o) = {} =>
                    /\ install_prefix[o].level = Max(writable)
                    /\ ~is_installed[o])
    /\ [][~IsConstructed =>
            fs' = fs /\ archive_file' = archive_file /\ src_tree' = src_tree]_vars

\* nothing was found, and the highest level is not writable
C18_Witness ==
    /\ IsConstructed
    /\ ValidLevels(1) = {}
    /\ NLevels \notin writable
    /\ \E k \in Levels : fs[[install_prefix[1] EXCEPT !.level = k]].exists

\* the URL the keyword stands for, read off the repos table
KeywordUrl == IF target = <<"ppc64", "Linux">> THEN "http://b" ELSE "http://a"

\* the source string the specifier of o stands for
Resolved(o) == IF sources[o] \in {"download", "DOWNLOAD"} THEN KeywordUrl ELSE sources[o]

\* C19 as stated: two constructions of the same package get the same install-prefix
\* exactly when their specifier strings are equal.
C19_PrefixNamedBySpecifier ==
    IsConstructed => (install_prefix[1] = install_prefix[2] <=> sources[1] = sources[2])

\* C19: the identifier of the install-prefix is the hash of the resolved source, which
\* is the specifier itself unless the specifier is the keyword download in any
\* spelling, and then the URL the repos table holds for the target.  Two constructions
\* of the same package get the same install-prefix exactly when their resolved sources
\* are equal.
C19_PrefixNamedByResolvedSource ==
    IsConstructed =>
        /\ \A o \in {1, 2} : install_prefix[o].uid = <<"md5", Resolved(o)>>
        /\ install_prefix[1] = install_prefix[2] <=> Resolved(1) = Resolved(2)

\* two spellings of the keyword got one install-prefix
C19_Witness ==
    /\ IsConstructed
    /\ sources[1] = "download" /\ sources[2] = "DOWNLOAD"
    /\ install_prefix[1] = install_prefix[2]


(***************************************************************************)
(* Construction followed by install() with either force_reinstall, as far  *)
(* as the cleaning of the install-prefix at lines 475-478.                 *)
(***************************************************************************)
NextReinstall ==
    \E p \in Procs :
        \/ Construct(p)
        \/ \E force \in BOOLEAN : CallInstall(p, force)
        \/ InstallDependency(p)
        \/ InstallCheck(p)
        \/ InstallClean(p)

SpecReinstall == InitStorage /\ [][NextReinstall]_vars

\* C26: the install-prefix that install() cleans, and then configures with, lies under
\* a writable storage level.
C26_CleanedPrefixWritable ==
    \A p \in Procs : \A fr \in Frames(p) :
        "rmtree_prefix" \in StepsOf(fr.trace) => install_prefix[fr.obj].level \in writable

(***************************************************************************)
(* Installation.compiletime_config and runtime_config                      *)
(* (software/installation.py:304-360).  A string is a sequence of pieces;  *)
(* an environment is a function from the names it sets to strings; an     *)
(* argument is None or a value.                                            *)
(***************************************************************************)
EnvNames == {"PATH", "LD_LIBRARY_PATH", "DYLD_LIBRARY_PATH", "HOME"}

\* os.environ of the running process
Environ == [n \in {"PATH", "HOME"} |-> <<"/bin">>]

Arg(v) == [none |-> FALSE, val |-> v]

NoArg == [none |-> TRUE, val |-> <<>>]

\* the env arguments drawn: None, and the mappings that set some of the names
EnvArgs == {NoArg} \cup {Arg([n \in S |-> <<"/usr/bin">>]) : S \in SUBSET EnvNames}

\* the opts arguments drawn
OptsArgs == {NoArg} \cup {Arg(v) : v \in {<<>>, <<"-g">>, <<"-g", "-g">>, <<"-g", "-O">>}}

Platforms == {"darwin", "linux2"}

\* os.pathsep.join([a, b])
Join(a, b) == a \o <<":">> \o b

\* lines 146-148: self.bin_path, self.lib_path
bin_path == <<"<install_prefix>/bin">>

lib_path == <<"<install_prefix>/lib">>

\* os.path.isdir(self.bin_path): the prefix holds a file under bin
BinIsDir(d) == d.exists /\ \E c \in Cmds : d.bin[c] # "missing"

\* os.path.isdir(self.lib_path): a directory, or a link to lib64
LibIsDir(d) == d.exists /\ (d.libdir = "dir" \/ (d.libdir = "link" /\ d.lib64dir))

\* lines 318, 344: opts = list(opts) if opts else []
OptsCopy(a) == IF a.none \/ a.val = <<>> THEN <<>> ELSE a.val

\* lines 319, 345: env = dict(env) if env else dict(os.environ)
EnvCopy(a) == IF a.none \/ DOMAIN a.val = {} THEN Environ ELSE a.val

\* lines 321-324, 347-350, 356-359: env[name] = join([path, env[name]]), or path on
\* KeyError
Prepend(env, name, path) ==
    [n \in DOMAIN env \cup {name} |->
        IF n # name THEN env[n]
        ELSE IF name \in DOMAIN env THEN Join(path, env[name]) ELSE path]

\* lines 325, 360: list(set(opts)), in any order
Deduplicated(opts) ==
    {l \in UNION {[1 .. n -> Range(opts)] : n \in 0 .. Len(opts)} :
        /\ Range(l) = Range(opts)
        /\ \A i, j \in 1 .. Len(l) : i # j => l[i] # l[j]}

\* what a call returns and what it leaves in the caller's arguments, which it only
\* reads
Configured(opts, env, oarg, earg) ==
    [op |-> "return", opts |-> opts, env |-> env, caller_opts |-> oarg, caller_env |-> earg]

compiletime_config_unguarded(d, oarg, earg) ==
    {Configured(l, Prepend(EnvCopy(earg), "PATH", bin_path), oarg, earg) :
        l \in Deduplicated(OptsCopy(oarg))}

\* lines 318-325 on an installation whose prefix is d
compiletime_config(d, oarg, earg) ==
    LET env == EnvCopy(earg)
        out == IF BinIsDir(d) THEN Prepend(env, "PATH", bin_path) ELSE env
    IN  {Configured(l, out, oarg, earg) : l \in Deduplicated(OptsCopy(oarg))}

\* lines 352-355
LibraryPath(platform) ==
    IF platform = "darwin" THEN "DYLD_LIBRARY_PATH" ELSE "LD_LIBRARY_PATH"

runtime_config_unguarded(d, oarg, earg, platform) ==
    LET env == EnvCopy(earg)
        e1 == IF BinIsDir(d) THEN Prepend(env, "PATH", bin_path) ELSE env
    IN  {Configured(l, Prepend(e1, LibraryPath(platform), lib_path), oarg, earg) :
            l \in Deduplicated(OptsCopy(oarg))}

\* lines 344-360
runtime_config(d, oarg, earg, platform) ==
    LET env == EnvCopy(earg)
        e1 == IF BinIsDir(d) THEN Prepend(env, "PATH", bin_path) ELSE env
        e2 == IF LibIsDir(d) THEN Prepend(e1, LibraryPath(platform), lib_path) ELSE e1
    IN  {Configured(l, e2, oarg, earg) : l \in Deduplicated(OptsCopy(oarg))}

ConfigCall(method, oarg, earg, platform) ==
    [op |-> "call", method |-> method, opts |-> oarg, env |-> earg, platform |-> platform]

\* process p calls one of the two on its installation and gets ret
Configures(p, call, ret) ==
    /\ ppc[p] = "start"
    /\ calls[p] < MaxConfigCalls
    /\ calls' = [calls EXCEPT ![p] = @ + 1]
    /\ trace' = [trace EXCEPT ![p] = <<call, ret>>]
    /\ outcome' = [outcome EXCEPT ![p] = "ok"]
    /\ UNCHANGED <<config, is_installed, src_prefix, fs, archive_file, src_tree, ppc,
                   stack, inscope, released, failed, history>>

CompiletimeConfigCall(p) ==
    \E oarg \in OptsArgs, earg \in EnvArgs, platform \in Platforms :
        \E ret \in compiletime_config(fs[install_prefix[root[p]]], oarg, earg) :
            Configures(p, ConfigCall("compiletime_config", oarg, earg, platform), ret)

RuntimeConfigCall(p) ==
    \E oarg \in OptsArgs, earg \in EnvArgs, platform \in Platforms :
        \E ret \in runtime_config(fs[install_prefix[root[p]]], oarg, earg, platform) :
            Configures(p, ConfigCall("runtime_config", oarg, earg, platform), ret)

NextConfig == \E p \in Procs : CompiletimeConfigCall(p) \/ RuntimeConfigCall(p)

\* the installation is not installed, or installed with lib, with lib64 only, or
\* with lib a link to lib64
InitConfig ==
    /\ dependencies = [o \in Objs |-> <<>>]
    /\ install_prefix = [o \in Objs |-> o]
    /\ src = [o \in Objs |-> TRUE]
    /\ verify_commands = [o \in Objs |-> Cmds]
    /\ verify_libraries = [o \in Objs |-> Libs]
    /\ verify_headers = [o \in Objs |-> Hdrs]
    /\ \E d \in {AbsentFS, EmptyFS, ValidFS, Valid64FS, Lib64Alias(Valid64FS)} :
         fs = [x \in Prefixes |-> IF x = 1 THEN d ELSE AbsentFS]
    /\ archive_file = [o \in Objs |-> NoArchive]
    /\ src_tree = [o \in Objs |-> {}]
    /\ writable = {NLevels}
    /\ shm_available = FALSE
    /\ root = [p \in Procs |-> 1]
    /\ ppc = [p \in Procs |-> IF p = 1 THEN "start" ELSE "done"]
    /\ Constructed
    /\ Idle

SpecConfig == InitConfig /\ [][NextConfig]_vars

(***************************************************************************)
(* Properties of compiletime_config and runtime_config.                    *)
(***************************************************************************)
\* PATH of env after the bin directory was put in front of it
PathPrepended(env) ==
    IF "PATH" \in DOMAIN env THEN <<"<install_prefix>/bin", ":">> \o env["PATH"]
    ELSE <<"<install_prefix>/bin">>

\* the library path of env after the lib directory was put in front of it
LibraryPathPrepended(env, name) ==
    IF name \in DOMAIN env THEN <<"<install_prefix>/lib", ":">> \o env[name]
    ELSE <<"<install_prefix>/lib">>

\* the environment the caller passed; none stands for the environment of the process
InputEnv(call) == IF call.env.none THEN Environ ELSE call.env.val

\* the environment the call starts from: the environment of the process also when the
\* caller passed an empty mapping
StartEnv(call) == IF call.env.none \/ DOMAIN call.env.val = {} THEN Environ ELSE call.env.val

\* the arguments of the caller are as they were
CallerUntouched(call, ret) == ret.caller_opts = call.opts /\ ret.caller_env = call.env

NNames == 2          \* distinct target names on the command lines
MaxCommands == 2     \* commands one process runs

TargetNames == 1 .. NNames

\* what a command did and how it ended; adds are the target records it created
Ended(steps, result, adds) == [steps |-> steps, result |-> result, adds |-> adds]

\* CreateCommand.create_record (tau.cli.cli_view): a record whose name is in use is
\* refused through parser.error, otherwise the record is created and 0 is returned
create_record(recs, name) ==
    IF ~selected THEN Ended(<<>>, "ProjectStorageError", <<>>)
    ELSE IF name \in Range(recs) THEN Ended(<<>>, "already exists", <<>>)
    ELSE Ended(<<"create_record">>, "0", <<name>>)

target_create_main_without_record(recs, name, ok) ==
    IF ~ok THEN Ended(<<>>, "usage", <<>>) ELSE Ended(<<"register_compilers">>, "0", <<>>)

\* TargetCreateCommand.main, lines 183-201; ok: the command line and the compiler
\* flags are accepted (lines 184-192)
target_create_main(recs, name, ok) ==
    IF ~ok THEN Ended(<<>>, "usage", <<>>)
    ELSE LET r == create_record(recs, name)
         IN  Ended(<<"register_compilers">> \o r.steps, r.result, r.adds)

trial_create_main_unchecked(ok, run) ==
    IF ~ok THEN Ended(<<>>, "usage", <<>>) ELSE Ended(<<"populate", "managed_run">>, run, <<>>)

\* TrialCreateCommand.main, lines 65-75; ok: the command line is accepted (line 66);
\* run: what managed_run returns
trial_create_main(ok, run) ==
    IF ~ok THEN Ended(<<>>, "usage", <<>>)
    ELSE IF ~selected THEN Ended(<<>>, "ConfigurationError", <<>>)
    ELSE Ended(<<"populate", "managed_run">>, run, <<>>)

\* TrialShowCommand.main, lines 52-79; ok: the command line is accepted (line 53);
\* numbers: every trial number given is an integer (lines 68-72); shown: what show
\* returns
trial_show_main(ok, numbers, shown) ==
    IF ~ok THEN Ended(<<>>, "usage", <<>>)
    ELSE IF ~selected THEN Ended(<<>>, "ConfigurationError", <<>>)
    ELSE IF ~numbers THEN Ended(<<"populate">>, "usage", <<>>)
    ELSE Ended(<<"populate", "show">>, shown, <<>>)

CommandLine(command, name, ok, numbers) ==
    [op |-> "call", method |-> command, name |-> name, ok |-> ok, numbers |-> numbers]

\* process p runs a command that ends as r
CommandStep(p, line, r) ==
    /\ ppc[p] = "start"
    /\ calls[p] < MaxCommands
    /\ calls' = [calls EXCEPT ![p] = @ + 1]
    /\ trace' = [trace EXCEPT ![p] = <<line>> \o [k \in 1 .. Len(r.steps) |-> [op |-> r.steps[k]]]]
    /\ outcome' = [outcome EXCEPT ![p] = r.result]
    /\ targets' = targets \o r.adds
    /\ UNCHANGED <<selected, sources, target, dependencies, src, install_prefix,
                   verify_commands, verify_libraries, verify_headers, writable,
                   shm_available, root, is_installed, src_prefix, fs, archive_file,
                   src_tree, ppc, stack, inscope, released, failed, history>>

TargetCreate(p) ==
    \E name \in TargetNames, ok \in BOOLEAN :
        CommandStep(p, CommandLine("target create", name, ok, TRUE),
              target_create_main(targets, name, ok))

TrialCreate(p) ==
    \E ok \in BOOLEAN, run \in {"0", "1"} :
        CommandStep(p, CommandLine("trial create", None, ok, TRUE), trial_create_main(ok, run))

TrialShow(p) ==
    \E ok \in BOOLEAN, numbers \in BOOLEAN, shown \in {"0", "1"} :
        CommandStep(p, CommandLine("trial show", None, ok, numbers),
              trial_show_main(ok, numbers, shown))

NextCli == \E p \in Procs : TargetCreate(p) \/ TrialCreate(p) \/ TrialShow(p)

\* a project is selected or none is; the project has no target yet or one
InitCli ==
    /\ selected \in BOOLEAN
    /\ targets \in {<<>>, <<1>>}
    /\ ~selected => targets = <<>>
    /\ sources = [o \in Objs |-> "download"]
    /\ target = <<"x86_64", "Linux">>
    /\ dependencies = [o \in Objs |-> <<>>]
    /\ install_prefix = [o \in Objs |-> o]
    /\ src = [o \in Objs |-> TRUE]
    /\ verify_commands = [o \in Objs |-> Cmds]
    /\ verify_libraries = [o \in Objs |-> Libs]
    /\ verify_headers = [o \in Objs |-> Hdrs]
    /\ fs = [d \in Prefixes |-> AbsentFS]
    /\ is_installed = [o \in Objs |-> FALSE]
    /\ src_prefix = [o \in Objs |-> None]
    /\ archive_file = [o \in Objs |-> NoArchive]
    /\ src_tree = [o \in Objs |-> {}]
    /\ writable = {NLevels}
    /\ shm_available = FALSE
    /\ root = [p \in Procs |-> 1]
    /\ ppc = [p \in Procs |-> "start"]
    /\ IdleProcesses

SpecCli == InitCli /\ [][NextCli]_vars

(***************************************************************************)
(* Properties of the commands.                                             *)
(***************************************************************************)
\* this step is a command of p whose command line was accepted
RunsCommand(p, command) ==
    /\ calls'[p] = calls[p] + 1
    /\ trace'[p][1].method = command
    /\ trace'[p][1].ok

LastCommand(p, command) ==
    trace[p] # <<>> /\ trace[p][1].op = "call" /\ trace[p][1].method = command
        /\ trace[p][1].ok

\* C25: when no project is selected, `trial create` and `trial show` raise
\* ConfigurationError before the selected experiment is populated, an application is
\* run or a trial is shown.
C25_NoProjectSelected ==
    \A p \in Procs :
        ~selected /\ (LastCommand(p, "trial create") \/ LastCommand(p, "trial show")) =>
            /\ outcome[p] = "ConfigurationError"
            /\ Len(trace[p]) = 1

C25_Witness ==
    /\ ~selected
    /\ LastCommand(1, "trial create") /\ outcome[1] = "ConfigurationError"
    /\ LastCommand(2, "trial show") /\ outcome[2] = "ConfigurationError"

(***************************************************************************)
(* The flags and env arguments of the build steps as objects               *)
(* (software/installation.py:372-446, 488-494).  A heap is a sequence of   *)
(* values and a reference is an index into it, so that a copy and an alias *)
(* of a list or of a mapping differ.  A mapping is a function from the     *)
(* names it sets.                                                          *)
(***************************************************************************)
\* the names a step may set in the mapping it was handed
ThreadNames == {"CFLAGS"}

Additions == {[n \in S |-> <<"set">>] : S \in SUBSET ThreadNames}

\* the flags lists a caller may pass to a step
FlagValues == {<<>>, <<"--with-x">>}

\* dict.update, env[name] = value
Update(m, n) == [k \in DOMAIN m \cup DOMAIN n |-> IF k \in DOMAIN n THEN n[k] ELSE m[k]]

\* a new object holding v, and the reference to it
Alloc(h, v) == [heap |-> Append(h, v), ref |-> Len(h) + 1]

list_alias(h, ref) == [heap |-> h, ref |-> ref]

\* lines 385, 411, 437: `flags = list(flags)`
list_copy(h, ref) == Alloc(h, h[ref])

\* lines 387, 439: `flags += [...]` on the list named by ref
Extend(h, ref, more) == [h EXCEPT ![ref] = @ \o more]

\* lines 375, 398, 423: "Changes to `env` are propagated to subsequent steps": the
\* step is handed the caller's mapping itself, and what is set in it is set there
Setenv(h, env, adds) == [h EXCEPT ![env] = Update(@, adds)]

\* util.create_subprocess(cmd, cwd=self.src_prefix, env=env, stdout=False)
Subprocess(h, prog, flags, env) ==
    [prog |-> prog, flags |-> h[flags], env |-> h[env], env_ref |-> env]

\* what a step did: the heap it leaves, the subprocesses it created and whether it
\* raised SoftwarePackageError
Stepped(h, cmds, raised) == [heap |-> h, cmds |-> cmds, raised |-> raised]

\* lines 383-393: configure(flags, env)
ConfigureRef(h, flags, env, adds, st) ==
    LET c == list_copy(h, flags)
        h1 == Extend(c.heap, c.ref, <<"--prefix=<install_prefix>">>)
        h2 == Setenv(h1, env, adds)
    IN  Stepped(h2, <<Subprocess(h2, "configure", c.ref, env)>>, st[1] # 0)

\* lines 409-418: make(flags, env, parallel)
MakeRef(h, flags, env, parallel, adds, st) ==
    LET c == list_copy(h, flags)
        par == Alloc(c.heap, IF parallel THEN <<"-j", "<nprocs>">> \o c.heap[c.ref]
                                         ELSE c.heap[c.ref])
        h1 == Setenv(par.heap, env, adds)
        first == Subprocess(h1, "make", par.ref, env)
    IN  IF st[1] = 0 THEN Stepped(h1, <<first>>, FALSE)
        ELSE Stepped(h1, <<first, Subprocess(h1, "make", c.ref, env)>>, st[2] # 0)

\* lines 435-443: make_install(flags, env, parallel)
MakeInstallRef(h, flags, env, parallel, adds, st) ==
    LET c == list_copy(h, flags)
        h1 == IF parallel THEN Extend(c.heap, c.ref, <<"-j", "<nprocs>">>) ELSE c.heap
        h2 == Setenv(h1, env, adds)
    IN  Stepped(h2, <<Subprocess(h2, "make install", c.ref, env)>>, st[1] # 0)

\* lines 490-494: env = {}; configure([], env); make([], env); make_install([], env),
\* each step begun only when the one before did not raise
InstallDriver(adds, st) ==
    LET e == Alloc(<<>>, <<>>)
        f1 == Alloc(e.heap, <<>>)
        c == ConfigureRef(f1.heap, f1.ref, e.ref, adds[1], st[1])
        f2 == Alloc(c.heap, <<>>)
        m == MakeRef(f2.heap, f2.ref, e.ref, TRUE, adds[2], st[2])
        f3 == Alloc(m.heap, <<>>)
        i == MakeInstallRef(f3.heap, f3.ref, e.ref, FALSE, adds[3], st[3])
    IN  IF c.raised THEN Stepped(c.heap, c.cmds, TRUE)
        ELSE IF m.raised THEN Stepped(m.heap, c.cmds \o m.cmds, TRUE)
        ELSE Stepped(i.heap, c.cmds \o m.cmds \o i.cmds, i.raised)

\* what the caller passed, and what it holds of it after the call
ThreadCall(method, flags, env, adds, flags_after, env_after) ==
    [op |-> "call", method |-> method, flags |-> flags, env |-> env, adds |-> adds,
     flags_after |-> flags_after, env_after |-> env_after]

\* the one call of p ran r
Threaded(p, call, r) ==
    /\ ppc[p] = "start"
    /\ src_prefix[root[p]] # None
    /\ trace[p] = <<>>
    /\ calls' = [calls EXCEPT ![p] = @ + 1]
    /\ trace' = [trace EXCEPT ![p] = <<call>> \o r.cmds]
    /\ outcome' = [outcome EXCEPT ![p] =
                     IF r.raised THEN "SoftwarePackageError" ELSE "ok"]
    /\ UNCHANGED <<config, is_installed, src_prefix, fs, archive_file, src_tree, ppc,
                   stack, inscope, released, failed, history>>

\* the caller's list and mapping, on a heap of their own
CallerHeap(flags, env) == <<flags, env>>

ThreadedConfigure(p) ==
    \E flags \in FlagValues, env \in Additions, adds \in Additions, st \in Statuses :
        LET r == ConfigureRef(CallerHeap(flags, env), 1, 2, adds, st)
        IN  Threaded(p, ThreadCall("configure", flags, env, adds, r.heap[1], r.heap[2]), r)

ThreadedMake(p) ==
    \E flags \in FlagValues, env \in Additions, adds \in Additions, st \in Statuses,
       parallel \in BOOLEAN :
        LET r == MakeRef(CallerHeap(flags, env), 1, 2, parallel, adds, st)
        IN  Threaded(p, ThreadCall("make", flags, env, adds, r.heap[1], r.heap[2]), r)

ThreadedMakeInstall(p) ==
    \E flags \in FlagValues, env \in Additions, adds \in Additions, st \in Statuses,
       parallel \in BOOLEAN :
        LET r == MakeInstallRef(CallerHeap(flags, env), 1, 2, parallel, adds, st)
        IN  Threaded(p, ThreadCall("make install", flags, env, adds, r.heap[1], r.heap[2]), r)

ThreadedInstall(p) ==
    \E adds \in [1 .. 3 -> Additions], st \in [1 .. 3 -> Statuses] :
        LET r == InstallDriver(adds, st)
        IN  Threaded(p, ThreadCall("install", <<>>, <<>>, adds, <<>>, r.heap[1]), r)

NextThread ==
    \E p \in Procs :
        \/ ThreadedConfigure(p)
        \/ ThreadedMake(p)
        \/ ThreadedMakeInstall(p)
        \/ ThreadedInstall(p)

\* one installation whose source tree is staged, and two callers
InitThread ==
    /\ sources = [o \in Objs |-> "download"]
    /\ target = <<"x86_64", "Linux">>
    /\ dependencies = [o \in Objs |-> <<>>]
    /\ install_prefix = [o \in Objs |-> o]
    /\ src = [o \in Objs |-> TRUE]
    /\ verify_commands = [o \in Objs |-> Cmds]
    /\ verify_libraries = [o \in Objs |-> Libs]
    /\ verify_headers = [o \in Objs |-> Hdrs]
    /\ fs = [d \in Prefixes |-> AbsentFS]
    /\ is_installed = [o \in Objs |-> FALSE]
    /\ archive_file = [o \in Objs |-> [NoArchive EXCEPT ![NLevels] = "good"]]
    /\ src_prefix = [o \in Objs |-> IF o = 1 THEN NLevels ELSE None]
    /\ src_tree = [o \in Objs |-> IF o = 1 THEN {NLevels} ELSE {}]
    /\ writable = {NLevels}
    /\ shm_available = FALSE
    /\ root = [p \in Procs |-> 1]
    /\ ppc = [p \in Procs |-> "start"]
    /\ Idle

SpecThread == InitThread /\ [][NextThread]_vars

(***************************************************************************)
(* Properties of the arguments of the build steps.                         *)
(***************************************************************************)
\* the first subprocess of each build step among the subprocesses runs
StepOrder == <<"configure", "make", "make install">>

StepIndex(prog) == CHOOSE k \in 1 .. 3 : StepOrder[k] = prog

\* the names set by the steps up to and including the step running prog
SetUpTo(adds, prog) == UNION {DOMAIN adds[k] : k \in 1 .. StepIndex(prog)}

\* C32: install() hands one initially empty mapping to configure, make and make
\* install, so each step's subprocesses see exactly the entries set by that step and
\* the steps before it; a step called with a flags list works on a copy and leaves
\* the caller's list as it was.
C32_EnvThreadedFlagsCopied ==
    \A p \in Procs :
        /\ Drove(p, "install") =>
             \A j \in 1 .. Len(Runs(p)) :
                /\ Runs(p)[j].env_ref = Runs(p)[1].env_ref
                /\ DOMAIN Runs(p)[j].env = SetUpTo(trace[p][1].adds, Runs(p)[j].prog)
        /\ (Drove(p, "configure") \/ Drove(p, "make") \/ Drove(p, "make install")) =>
             /\ trace[p][1].flags_after = trace[p][1].flags
             /\ \A j \in 1 .. Len(Runs(p)) :
                  /\ DOMAIN Runs(p)[j].env =
                        DOMAIN trace[p][1].env \cup DOMAIN trace[p][1].adds
                  /\ Runs(p)[j].env_ref = 2

\* install() ran all three steps, configure set a name that make install saw, and
\* another process called configure with a non-empty flags list
C32_Witness ==
    /\ Drove(1, "install") /\ outcome[1] = "ok"
    /\ "CFLAGS" \in DOMAIN trace[1][1].adds[1]
    /\ "CFLAGS" \notin DOMAIN trace[1][1].adds[3]
    /\ Runs(1)[Len(Runs(1))].prog = "make install"
    /\ "CFLAGS" \in DOMAIN Runs(1)[Len(Runs(1))].env
    /\ Drove(2, "configure") /\ trace[2][1].flags # <<>>
    /\ Len(Runs(2)[1].flags) = Len(trace[2][1].flags) + 1

(***************************************************************************)
(* The number of parallel jobs (software/installation.py:46-58,            *)
(* cf/installation.py:137-143) and the legacy Autotools driver             *)
(* (cf/installation.py:145-182, 339-461).  A string that is formatted,     *)
(* parsed or tested for a prefix is a sequence of characters.              *)
(***************************************************************************)
MaxCpus == 11

Digit == <<"0", "1", "2", "3", "4", "5", "6", "7", "8", "9">>

RECURSIVE str(_)
\* str(n), '%s' % n of a natural number
str(n) == IF n < 10 THEN <<Digit[n + 1]>> ELSE str(n \div 10) \o <<Digit[(n % 10) + 1]>>

RECURSIVE atoi(_)
\* the number make reads from the digits s
atoi(s) ==
    IF s = <<>> THEN 0
    ELSE 10 * atoi(SubSeq(s, 1, Len(s) - 1))
            + (CHOOSE d \in 0 .. 9 : Digit[d + 1] = s[Len(s)])

\* the argument of make's -j option in the command-line arguments args: the rest of
\* the argument that begins with -j, or the argument after it
Jobs(args) ==
    IF Len(args[1]) > 2 THEN atoi(SubSeq(args[1], 3, Len(args[1]))) ELSE atoi(args[2])

\* software/installation.py:56-58; nprocs = None is 0 here, which `not nprocs`
\* treats alike
parallel_make_flags(nprocs, cpu_count) ==
    LET n == IF nprocs = 0 THEN Max({1, cpu_count - 1}) ELSE nprocs
    IN  <<<<"-", "j">>, str(n)>>

\* cf/installation.py:142-143
legacy_parallel_make_flags(cpu_count) ==
    LET ncores == cpu_count - 1
    IN  <<<<"-", "j">> \o str(ncores)>>

\* the names of environment variables
KeyCC == <<"C", "C">>
KeyCXX == <<"C", "X", "X">>
KeyCCACHE == <<"C", "C", "A", "C", "H", "E">>
KeyPATH == <<"P", "A", "T", "H">>
KeyTAU == <<"T", "A", "U", "_", "O", "P", "T">>
KeyCFLAGS == <<"C", "F", "L", "A", "G", "S">>

\* ALL_ROLES of cf.compiler.role: the keywords of the compiler roles
RoleKeywords == {KeyCC, KeyCXX, <<"F", "C">>, <<"F", "7", "7">>, <<"F", "9", "0">>, <<"U", "P", "C">>}

\* os.environ of the process that installs
LegacyEnviron ==
    [k \in {KeyPATH, KeyCC, KeyCCACHE, KeyTAU} |->
        IF k = KeyPATH THEN "/bin" ELSE IF k = KeyCC THEN "cc" ELSE "x"]

\* the env arguments a caller passes
LegacyEnvs == {<<>>, [k \in {KeyCFLAGS} |-> "-g"], [k \in {KeyCC} |-> "mycc"]}

\* cf/installation.py:156-160: key.startswith(role.keyword) for a role, or
\* key.startswith('TAU')
is_dangerous(key) ==
    \/ \E word \in RoleKeywords : IsPrefix(word, key)
    \/ IsPrefix(<<"T", "A", "U">>, key)

\* cf/installation.py:161-168
scrub_environment(env) == [k \in {x \in DOMAIN env : ~is_dangerous(x)} |-> env[k]]

\* cf/installation.py:181: dict(os.environ, **env) if env else os.environ
SafeEnvironment(env) ==
    scrub_environment(IF DOMAIN env # {} THEN Update(LegacyEnviron, env) ELSE LegacyEnviron)

\* cf/installation.py:170-182: _safe_subprocess(cmd, cwd, env); arg_env is what the
\* caller of the step holds in the mapping it passed
SafeSubprocess(h, prog, flags, env, arg) ==
    [prog |-> prog, flags |-> h[flags], env |-> SafeEnvironment(h[env]),
     step_env |-> h[env], arg_env |-> h[arg]]

Families == {"GNU", "Intel", "PGI", "Cray"}

\* cf/installation.py:356-358
compiler_env ==
    [f \in {"GNU", "Intel", "PGI"} |->
        [k \in {KeyCC, KeyCXX} |->
            IF f = "GNU" THEN (IF k = KeyCC THEN "gcc" ELSE "g++")
            ELSE IF f = "Intel" THEN (IF k = KeyCC THEN "icc" ELSE "icpc")
            ELSE (IF k = KeyCC THEN "pgcc" ELSE "pgCC")]]

\* cf/installation.py:352, 383, 408: `env = dict(env)`
dict_copy(h, ref) == Alloc(h, h[ref])

\* cf/installation.py:339-367: configure(flags, env) of an installation whose
\* compilers.CC.family is family
LegacyConfigure(h, flags, env, family, st) ==
    LET c == list_copy(h, flags)
        e == dict_copy(c.heap, env)
        h1 == Extend(e.heap, c.ref, <<"--prefix=<install_prefix>">>)
        h2 == IF family \in DOMAIN compiler_env
              THEN [h1 EXCEPT ![e.ref] = Update(@, compiler_env[family])]
              ELSE h1
    IN  Stepped(h2, <<SafeSubprocess(h2, "configure", c.ref, e.ref, env)>>, st[1] # 0)

\* cf/installation.py:369-390: make(flags, env, parallel)
LegacyMake(h, flags, env, parallel, cpu_count, st) ==
    LET c == list_copy(h, flags)
        e == dict_copy(c.heap, env)
        h1 == IF parallel
              THEN Extend(e.heap, c.ref, legacy_parallel_make_flags(cpu_count))
              ELSE e.heap
    IN  Stepped(h1, <<SafeSubprocess(h1, "make", c.ref, e.ref, env)>>, st[1] # 0)

\* cf/installation.py:392-417: make_install(flags, env, parallel)
LegacyMakeInstall(h, flags, env, parallel, cpu_count, st) ==
    LET c == list_copy(h, flags)
        e == dict_copy(c.heap, env)
        h1 == IF parallel
              THEN Extend(e.heap, c.ref, legacy_parallel_make_flags(cpu_count))
              ELSE e.heap
    IN  Stepped(h1, <<SafeSubprocess(h1, "make install", c.ref, e.ref, env)>>, st[1] # 0)

\* cf/installation.py:451-458: env = {}; configure([], env); make([], env);
\* make_install([], env)
LegacyInstallDriver(family, cpu_count, st) ==
    LET e == Alloc(<<>>, <<>>)
        f1 == Alloc(e.heap, <<>>)
        c == LegacyConfigure(f1.heap, f1.ref, e.ref, family, st[1])
        f2 == Alloc(c.heap, <<>>)
        m == LegacyMake(f2.heap, f2.ref, e.ref, TRUE, cpu_count, st[2])
        f3 == Alloc(m.heap, <<>>)
        i == LegacyMakeInstall(f3.heap, f3.ref, e.ref, FALSE, cpu_count, st[3])
    IN  IF c.raised THEN Stepped(c.heap, c.cmds, TRUE)
        ELSE IF m.raised THEN Stepped(m.heap, c.cmds \o m.cmds, TRUE)
        ELSE Stepped(i.heap, c.cmds \o m.cmds \o i.cmds, i.raised)

\* what the caller of the legacy driver passed
LegacyCall(method, family, flags, env) ==
    [op |-> "call", method |-> method, family |-> family, flags |-> flags, env |-> env]

\* what the caller asked of the functions that give the -j flags
FlagsCall(method, nprocs, cpu_count) ==
    [op |-> "call", method |-> method, nprocs |-> nprocs, cpu_count |-> cpu_count]

\* the one call of p returned flags
Flagged(p, call, flags) ==
    /\ ppc[p] = "start"
    /\ trace[p] = <<>>
    /\ calls' = [calls EXCEPT ![p] = @ + 1]
    /\ trace' = [trace EXCEPT ![p] = <<call, [op |-> "return", flags |-> flags]>>]
    /\ outcome' = [outcome EXCEPT ![p] = "ok"]
    /\ UNCHANGED <<config, is_installed, src_prefix, fs, archive_file, src_tree, ppc,
                   stack, inscope, released, failed, history>>

ParallelMakeFlagsCall(p) ==
    \E nprocs \in 0 .. 2, cpu_count \in 1 .. MaxCpus :
        Flagged(p, FlagsCall("parallel_make_flags", nprocs, cpu_count),
                parallel_make_flags(nprocs, cpu_count))

LegacyParallelMakeFlagsCall(p) ==
    \E cpu_count \in 1 .. MaxCpus :
        Flagged(p, FlagsCall("_parallel_make_flags", 0, cpu_count),
                legacy_parallel_make_flags(cpu_count))

LegacyConfigureCall(p) ==
    \E flags \in FlagValues, env \in LegacyEnvs, family \in Families, st \in Statuses :
        Threaded(p, LegacyCall("configure", family, flags, env),
                 LegacyConfigure(CallerHeap(flags, env), 1, 2, family, st))

LegacyInstallCall(p) ==
    \E family \in Families, cpu_count \in {1, MaxCpus}, st \in [1 .. 3 -> Statuses] :
        Threaded(p, LegacyCall("install", family, <<>>, <<>>),
                 LegacyInstallDriver(family, cpu_count, st))

NextLegacy ==
    \E p \in Procs :
        \/ ParallelMakeFlagsCall(p)
        \/ LegacyParallelMakeFlagsCall(p)
        \/ LegacyConfigureCall(p)
        \/ LegacyInstallCall(p)

SpecLegacy == InitThread /\ [][NextLegacy]_vars

(***************************************************************************)
(* Properties of the -j flags and of the legacy driver.                    *)
(***************************************************************************)
\* C36: the number of jobs the default -j flags name is max(1, cpu_count - 1), at
\* least 1, in parallel_make_flags of the current driver and in
\* _parallel_make_flags of the legacy driver.
C36_DefaultJobsAtLeastOne ==
    \A p \in Procs :
        ((Drove(p, "parallel_make_flags") \/ Drove(p, "_parallel_make_flags"))
            /\ trace[p][1].nprocs = 0) =>
                /\ Jobs(trace[p][2].flags) = Max({1, trace[p][1].cpu_count - 1})
                /\ Jobs(trace[p][2].flags) >= 1

\* C39: the CC and CXX values that the legacy configure() selects for a GNU, Intel
\* or PGI compiler family are in the environment of the configure subprocess.
C39_SelectedCompilersReachConfigure ==
    \A p \in Procs :
        (Drove(p, "configure") /\ trace[p][1].family \in DOMAIN compiler_env) =>
            \A k \in {KeyCC, KeyCXX} :
                /\ k \in DOMAIN Runs(p)[1].env
                /\ Runs(p)[1].env[k] = compiler_env[trace[p][1].family][k]

\* C40: what the legacy configure() adds to env for the compiler family is in the
\* mapping that install() passes to make() and to make_install() afterwards.
C40_ConfigureChangesPropagate ==
    \A p \in Procs :
        (Drove(p, "install") /\ trace[p][1].family \in DOMAIN compiler_env) =>
            \A j \in 1 .. Len(Runs(p)) :
                Runs(p)[j].prog # "configure" =>
                    \A k \in {KeyCC, KeyCXX} :
                        /\ k \in DOMAIN Runs(p)[j].arg_env
                        /\ Runs(p)[j].arg_env[k] = compiler_env[trace[p][1].family][k]

(***************************************************************************)
(* TargetCreateCommand.parse_compiler_flags (cli/commands/target/          *)
(* create.py:47-114).  The compiler roles, the roles TAU requires, the     *)
(* compilers a family has installed and the roles the host has a default   *)
(* compiler for are given by the collaborators and drawn freely.           *)
(***************************************************************************)
\* CompilerRole.keys(): roles of the host compilers and of the MPI compilers
HostRoles == {"CC", "CXX"}
MpiRoles == {"MPI_CC"}
CompilerRoles == HostRoles \cup MpiRoles

\* a family argument: not among the arguments, naming no family the class knows, or
\* naming a family of which the compilers for the roles `installed` are installed
NoFamily == [given |-> FALSE, valid |-> FALSE, installed |-> {}]
InvalidFamily == [given |-> TRUE, valid |-> FALSE, installed |-> {}]
Family(S) == [given |-> TRUE, valid |-> TRUE, installed |-> S]

FamilyArgs(roles) == {NoFamily, InvalidFamily} \cup {Family(S) : S \in SUBSET roles}

\* what the call ended with: the mapping returned or the exception
Parsed(result, compilers) == [op |-> "return", result |-> result, compilers |-> compilers]

\* lines 58-74: the roles that got a compiler from the family arguments
FromFamilies(host_family, mpi_family) ==
    (IF host_family.valid THEN host_family.installed ELSE {})
        \cup (IF mpi_family.valid THEN mpi_family.installed ELSE {})

\* lines 76-87: the roles that are not among the arguments get the host's default
\* compiler where there is one
FromDefaults(host_family, mpi_family, explicit, defaults) ==
    LET given_keys == explicit \cup FromFamilies(host_family, mpi_family)
        missing_keys == CompilerRoles \ given_keys
    IN  missing_keys \cap defaults

parse_compiler_flags_unchecked(host_family, mpi_family, explicit, defaults, required) ==
    IF (host_family.given /\ ~host_family.valid) \/ (mpi_family.given /\ ~mpi_family.valid)
    THEN Parsed("SystemExit", {})
    ELSE Parsed("ok", FromFamilies(host_family, mpi_family)
                        \cup FromDefaults(host_family, mpi_family, explicit, defaults))

\* lines 58-114
parse_compiler_flags(host_family, mpi_family, explicit, defaults, required) ==
    IF (host_family.given /\ ~host_family.valid) \/ (mpi_family.given /\ ~mpi_family.valid)
    THEN Parsed("SystemExit", {})
    ELSE LET compilers == FromFamilies(host_family, mpi_family)
                            \cup FromDefaults(host_family, mpi_family, explicit, defaults)
         IN  IF \E role \in required : role \notin compilers
             THEN Parsed("ConfigurationError", compilers)
             ELSE Parsed("ok", compilers)

\* the arguments and the answers of the collaborators
CompilerFlagsCall(host_family, mpi_family, explicit, defaults, required) ==
    [op |-> "call", method |-> "parse_compiler_flags", host_family |-> host_family,
     mpi_family |-> mpi_family, explicit |-> explicit, defaults |-> defaults,
     required |-> required]

\* CompilerRole.tau_required(), as the role registry may give it
RequiredRoles == {{}, {"CC"}, {"CC", "CXX"}, {"CC", "CXX", "MPI_CC"}}

ParseCompilerFlags(p) ==
    /\ ppc[p] = "start"
    /\ trace[p] = <<>>
    /\ \E host_family \in FamilyArgs(HostRoles), mpi_family \in FamilyArgs(MpiRoles),
          explicit \in SUBSET CompilerRoles, defaults \in SUBSET CompilerRoles,
          required \in RequiredRoles :
         LET r == parse_compiler_flags(host_family, mpi_family, explicit, defaults, required)
         IN  /\ trace' = [trace EXCEPT ![p] =
                   <<CompilerFlagsCall(host_family, mpi_family, explicit, defaults, required), r>>]
             /\ outcome' = [outcome EXCEPT ![p] = r.result]
    /\ calls' = [calls EXCEPT ![p] = @ + 1]
    /\ UNCHANGED <<config, is_installed, src_prefix, fs, archive_file, src_tree, ppc,
                   stack, inscope, released, failed, history>>

NextCompilers == \E p \in Procs : ParseCompilerFlags(p)

SpecCompilers == InitBuild /\ [][NextCompilers]_vars

(***************************************************************************)
(* Properties of parse_compiler_flags.                                     *)
(***************************************************************************)
\* the family arguments of the call name families the classes know
FamiliesKnown(c) ==
    (c.host_family.given => c.host_family.valid) /\ (c.mpi_family.given => c.mpi_family.valid)

\* the roles that are not among the arguments and have no default compiler
Unfound(c) ==
    (CompilerRoles \ (c.explicit \cup FromFamilies(c.host_family, c.mpi_family)))
        \ c.defaults

\* C37: parse_compiler_flags returns normally only with a mapping that holds a
\* compiler for every role TAU requires; when the mapping lacks one it raises
\* ConfigurationError; a role that is not required, is not among the arguments and
\* has no default compiler is absent from the mapping and raises nothing.
C37_RequiredCompilersFound ==
    \A p \in Procs : Drove(p, "parse_compiler_flags") =>
        LET c == trace[p][1]
            r == trace[p][2]
        IN  /\ r.result = "ok" => c.required \subseteq r.compilers
            /\ (FamiliesKnown(c) /\ ~(c.required \subseteq r.compilers)) =>
                    r.result = "ConfigurationError"
            /\ r.result \in {"ok", "ConfigurationError"} => r.compilers \cap Unfound(c) = {}
            /\ (FamiliesKnown(c) /\ Unfound(c) \cap c.required = {}
                    /\ c.explicit \cap c.required = {}) => r.result = "ok"

\* a call that returned although a role that is not required has no compiler, and
\* the required roles got theirs from the family and from the host's defaults
C37_Witness ==
    /\ Drove(1, "parse_compiler_flags")
    /\ trace[1][2].result = "ok"
    /\ trace[1][1].required = {"CC", "CXX"}
    /\ trace[1][1].host_family = Family({"CC"})
    /\ "CXX" \in trace[1][1].defaults
    /\ Unfound(trace[1][1]) = {"MPI_CC"}
    /\ trace[1][2].compilers = {"CC", "CXX"}

(***************************************************************************)
(* Papi (cf/papi.py:63-187).  The PAPI prefix is directory 1, libpapi.a is *)
(* library 1 and the extracted source directory is under <prefix>/src,     *)
(* directory NLevels.  shutil.rmtree removes what it is given.             *)
(***************************************************************************)
PapiPrefix == 1

\* self.cxx: None, or a compiler record of a family
PapiCompilers == {"None", "system", "GNU", "Intel", "PGI"}

\* lines 84-108: Papi.verify
PapiVerify(d) == d.exists /\ LibAccessible(d, 1)

\* lines 137-148, 153: family_flags[self.cxx['family']] is a list that
\* `['./configure', prefix_flag] + compiler_flag` can be built with; '' (no compiler,
\* 'system') raises TypeError there and a family without entry leaves compiler_flag
\* unbound
CommandBuilt(cxx) == cxx \in {"GNU", "Intel"}

\* `make install` writes out into a prefix that was not cleaned before
PapiInstalled(d, out) ==
    IF ~d.exists THEN out
    ELSE [out EXCEPT !.libdir = IF d.libdir = "dir" THEN "dir" ELSE out.libdir,
                     !.lib = IF d.libdir = "dir" THEN d.lib \cup out.lib ELSE out.lib,
                     !.lib64dir = d.lib64dir \/ out.lib64dir,
                     !.lib64 = d.lib64 \cup out.lib64,
                     !.inc = d.inc \cup out.inc]

\* lines 150-168: the steps of the build, each begun when the one before exited
\* zero, and the prefix they leave
PapiBuild(d, cxx, st, out) ==
    IF ~CommandBuilt(cxx) THEN [steps |-> <<"command_error">>, failed |-> TRUE, fs |-> d]
    ELSE IF st[1] # 0 THEN [steps |-> <<"configure_fail">>, failed |-> TRUE, fs |-> d]
    ELSE IF st[2] # 0
    THEN [steps |-> <<"configure_ok", "make_fail">>, failed |-> TRUE, fs |-> d]
    ELSE IF st[3] # 0
    THEN [steps |-> <<"configure_ok", "make_ok", "make_install_fail">>, failed |-> TRUE,
          fs |-> PapiInstalled(d, out)]
    ELSE [steps |-> <<"configure_ok", "make_ok", "make_install_ok">>, failed |-> FALSE,
          fs |-> PapiInstalled(d, out)]

KeptAfterFailedBuild(d) == d

\* lines 170-172: `except Exception`: shutil.rmtree(self.papi_prefix)
AfterFailedBuild(d) == AbsentFS

\* what install() ended with, the steps it took, the prefix it leaves and whether the
\* extracted source directory is still there
PapiEnded(result, steps, d, srcdir) ==
    [op |-> "return", result |-> result, steps |-> steps, fs |-> d, srcdir |-> srcdir]

\* lines 110-187: Papi.install on the prefix d; acquired tells whether download and
\* extraction worked
papi_install(force_reinstall, d, cxx, acquired, st, out) ==
    IF ~force_reinstall /\ PapiVerify(d) THEN PapiEnded("True", <<"verify_ok">>, d, FALSE)
    ELSE IF ~acquired THEN PapiEnded("ConfigurationError", <<"acquire_fail">>, d, FALSE)
    ELSE
      LET b == PapiBuild(d, cxx, st, out)
          d1 == IF b.failed THEN AfterFailedBuild(b.fs) ELSE b.fs
          steps == <<"extract">> \o b.steps \o <<"rmtree_src">>
      IN  IF PapiVerify(d1)
          THEN PapiEnded("True", steps \o <<"verify_ok">>, d1, FALSE)
          ELSE PapiEnded("SoftwarePackageError", steps \o <<"verify_fail">>, AbsentFS, FALSE)

PapiCall(force_reinstall, d, cxx) ==
    [op |-> "call", method |-> "papi_install", force |-> force_reinstall, fs |-> d,
     cxx |-> cxx]

PapiInstall(p) ==
    /\ ppc[p] = "start"
    /\ trace[p] = <<>>
    /\ \E force_reinstall \in BOOLEAN, cxx \in PapiCompilers, acquired \in BOOLEAN,
          st \in [1 .. 3 -> {0, 1}] :
         \E out \in (IF st[3] = 0 THEN BuildOutputs ELSE FailedOutputs(fs[PapiPrefix])) :
           LET r == papi_install(force_reinstall, fs[PapiPrefix], cxx, acquired, st, out)
           IN  /\ trace' = [trace EXCEPT ![p] =
                               <<PapiCall(force_reinstall, fs[PapiPrefix], cxx), r>>]
               /\ outcome' = [outcome EXCEPT ![p] = r.result]
               /\ fs' = [fs EXCEPT ![PapiPrefix] = r.fs]
               /\ src_tree' = [src_tree EXCEPT ![PapiPrefix] =
                                  IF r.srcdir THEN @ \cup {NLevels} ELSE @ \ {NLevels}]
    /\ calls' = [calls EXCEPT ![p] = @ + 1]
    /\ UNCHANGED <<config, is_installed, src_prefix, archive_file, ppc, stack, inscope,
                   released, failed, history>>

NextPapi == \E p \in Procs : PapiInstall(p)

\* a PAPI prefix that is absent, empty, complete, or holds the library under lib64
InitPapi ==
    /\ sources = [o \in Objs |-> "download"]
    /\ target = <<"x86_64", "Linux">>
    /\ dependencies = [o \in Objs |-> <<>>]
    /\ install_prefix = [o \in Objs |-> o]
    /\ src = [o \in Objs |-> TRUE]
    /\ verify_commands = [o \in Objs |-> {}]
    /\ verify_libraries = [o \in Objs |-> {1}]
    /\ verify_headers = [o \in Objs |-> {}]
    /\ \E d \in {AbsentFS, EmptyFS, ValidFS, Valid64FS} :
         fs = [x \in Prefixes |-> IF x = PapiPrefix THEN d ELSE AbsentFS]
    /\ is_installed = [o \in Objs |-> FALSE]
    /\ archive_file = [o \in Objs |-> NoArchive]
    /\ src_prefix = [o \in Objs |-> NLevels]
    /\ src_tree = [o \in Objs |-> {}]
    /\ writable = {NLevels}
    /\ shm_available = FALSE
    /\ root = [p \in Procs |-> 1]
    /\ ppc = [p \in Procs |-> "start"]
    /\ Idle

SpecPapi == InitPapi /\ [][NextPapi]_vars

(***************************************************************************)
(* Properties of Papi.install.                                             *)
(***************************************************************************)
PapiBuildFailures == {"command_error", "configure_fail", "make_fail", "make_install_fail"}

\* C38: Papi.install returns only after a verify() that succeeded on the prefix it
\* leaves, or raises; when configure, make, make install or the final verify() failed
\* the prefix is gone and SoftwarePackageError is raised; the extracted source
\* directory is deleted whenever the build was reached.
C38_PapiInstallAllOrNothing ==
    \A p \in Procs : Drove(p, "papi_install") =>
        LET r == trace[p][2]
            steps == Range(r.steps)
        IN  /\ r.result \in {"True", "ConfigurationError", "SoftwarePackageError"}
            /\ r.result = "True" =>
                 /\ r.steps[Len(r.steps)] = "verify_ok"
                 /\ steps \cap PapiBuildFailures = {}
            /\ (steps \cap (PapiBuildFailures \cup {"verify_fail"}) # {}) =>
                 /\ r.result = "SoftwarePackageError"
                 /\ ~r.fs.exists
            /\ "extract" \in steps => ("rmtree_src" \in steps /\ ~r.srcdir)

\* a forced install on a complete prefix whose configure failed: the old files are
\* gone and the call raised
C38_Witness ==
    /\ Drove(1, "papi_install")
    /\ trace[1][1].force /\ trace[1][1].fs = ValidFS
    /\ "configure_fail" \in Range(trace[1][2].steps)
    /\ outcome[1] = "SoftwarePackageError"
    /\ ~fs[PapiPrefix].exists

====
